---------------------------- MODULE Spec2Model ----------------------------
(***************************************************************************)
(* DyeLight: a textarea with a highlight overlay.                          *)
(*                                                                         *)
(* Two specifications share this module.                                   *)
(*   SegSpec : the pure text pipeline (getLinePositions, absoluteToLinePos,*)
(*             computeHighlightedContent, renderHighlightedLine) applied   *)
(*             to bounded inputs.                                          *)
(*   Spec    : one mounted component instance: the value hook             *)
(*             (useTextareaValue), the sync scheduler (useHighlightSync)   *)
(*             and the imperative handle of DyeLight.                      *)
(*                                                                         *)
(* A JavaScript string is a sequence of one-character strings.  Offsets    *)
(* are 0-based as in the source; TLA+ sequences are 1-based, so element i  *)
(* of a JavaScript array is element i+1 of the sequence that models it.    *)
(***************************************************************************)
EXTENDS Integers, Sequences, FiniteSets, TLC

VARIABLES
    \* ---- text pipeline (SegSpec) ----
    segPhase,       \* "idle" | "content" | "line" | "example"
    text,           \* input of computeHighlightedContent / line of renderHighlightedLine
    highlights,     \* input ranges, in declaration order
    rendered,       \* the elements returned by the last call
    \* ---- one component instance (Spec) ----
    mounted,        \* FALSE once the component has unmounted
    isControlled,   \* value !== undefined
    dl,             \* React state, refs and DOM of the instance (see InitInstance)
    widget,         \* what the sync pass reads from the textarea: [style, scroll]
    overlay,        \* what the sync pass writes to the highlight layer: [style, scroll]
    lastOp,         \* history: the last operation, [op, arg]
    got,            \* history: what the last getValue() returned
    lastFrame,      \* history: what the last animation frame executed
    \* ---- the two boxes the sync pass works on (GeoSpec) ----
    textarea,       \* the textarea element: box, computed style, scroll offsets
    highlightLayer, \* the overlay element: box, inline style, scroll offsets
    geoOp,          \* history: the last operation on the boxes
    \* ---- the telemetry collaborator ----
    telemetry       \* the AIOptimizedTelemetry object of the instance

segVars == <<segPhase, text, highlights, rendered>>
dlVars == <<mounted, isControlled, dl, widget, overlay, lastOp, got, lastFrame, telemetry>>
geoVars == <<textarea, highlightLayer, geoOp>>
vars == <<segVars, dlVars, geoVars>>

(***************************************************************************)
(* Bounds of the text pipeline.                                            *)
(***************************************************************************)
MaxLen == 2
MaxRanges == 2

NL == "\n"
NBSP == "NBSP"
Undefined == "undefined"

\* The letter at 0-based position p of an input text.  The pipeline never
\* inspects a character other than to compare it with "\n", so letters are
\* made distinct by position: any lost, duplicated or misplaced character
\* then changes the reconstructed text.
Alphabet == <<"a", "b", "c", "d", "e", "f", "g", "h">>

RECURSIVE TextsOfLen(_)
TextsOfLen(n) ==
    IF n = 0 THEN {<<>>}
    ELSE { Append(t, c) : t \in TextsOfLen(n - 1), c \in {NL, Alphabet[n]} }

Texts == UNION { TextsOfLen(n) : n \in 0..MaxLen }

Offsets == (0 - 1)..(MaxLen + 1)

Max2(a, b) == IF a >= b THEN a ELSE b
Min2(a, b) == IF a <= b THEN a ELSE b

\* String.prototype.slice(from, to) for 0 <= from, to
slice(s, from, to) == SubSeq(s, from + 1, Min2(to, Len(s)))

(***************************************************************************)
(* textUtils.ts                                                            *)
(***************************************************************************)
\* text.split('\n')
RECURSIVE split(_)
split(s) ==
    IF \A i \in 1..Len(s) : s[i] # NL THEN <<s>>
    ELSE LET k == CHOOSE i \in 1..Len(s) : s[i] = NL /\ \A j \in 1..(i - 1) : s[j] # NL
         IN  <<SubSeq(s, 1, k - 1)>> \o split(SubSeq(s, k + 1, Len(s)))

RECURSIVE lineStartsFrom_noLineBreak(_, _, _)
lineStartsFrom_noLineBreak(lines, index, position) ==
    IF index > Len(lines) THEN <<>>
    ELSE <<position>> \o
         lineStartsFrom_noLineBreak(lines, index + 1, position + Len(lines[index]))

\* the forEach of getLinePositions: the starts of lines[index..], the first at position
RECURSIVE lineStartsFrom(_, _, _)
lineStartsFrom(lines, index, position) ==
    IF index > Len(lines) THEN <<>>
    ELSE <<position>> \o
         lineStartsFrom(lines, index + 1,
                        position + Len(lines[index]) + (IF index < Len(lines) THEN 1 ELSE 0))

getLinePositions(s) ==
    LET lines == split(s)
    IN  [lines |-> lines, lineStarts |-> lineStartsFrom(lines, 1, 0)]

RECURSIVE scanLineStarts_strict(_, _, _)
scanLineStarts_strict(absolutePos, lineStarts, i) ==
    IF i < 0 THEN [char |-> 0, line |-> 0]
    ELSE IF absolutePos > lineStarts[i + 1]
         THEN [char |-> absolutePos - lineStarts[i + 1], line |-> i]
         ELSE scanLineStarts_strict(absolutePos, lineStarts, i - 1)

\* the backward scan of absoluteToLinePos, at array index i (sequence index i+1)
RECURSIVE scanLineStarts(_, _, _)
scanLineStarts(absolutePos, lineStarts, i) ==
    IF i < 0 THEN [char |-> 0, line |-> 0]
    ELSE IF absolutePos >= lineStarts[i + 1]
         THEN [char |-> absolutePos - lineStarts[i + 1], line |-> i]
         ELSE scanLineStarts(absolutePos, lineStarts, i - 1)

absoluteToLinePos_firstLine(absolutePos, lineStarts) ==
    scanLineStarts(absolutePos, lineStarts, Min2(0, Len(lineStarts) - 1))
absoluteToLinePos(absolutePos, lineStarts) ==
    scanLineStarts(absolutePos, lineStarts, Len(lineStarts) - 1)

(***************************************************************************)
(* DyeLight.tsx: createLineElement, renderHighlightedLine                  *)
(*                                                                         *)
(* A React element is a record.  A child of a line <div> is a record too:  *)
(* a plain string child has span = FALSE, a <span> child has span = TRUE   *)
(* with its className, its key index and its data-range-start.             *)
(***************************************************************************)
TextChild(s) == [span |-> FALSE, text |-> s]

SpanChild(s, className, idx, absoluteStart) ==
    [span |-> TRUE, text |-> s, className |-> className, key |-> idx,
     rangeStart |-> absoluteStart]

\* A line-highlight tag is a string; spell gives its characters, which is what
\* the regular expressions of isColorValue look at.  A missing entry of
\* lineHighlights and the empty string are both falsy.
NoLineHighlight == ""

LowerCase ==
    <<"a", "b", "c", "d", "e", "f", "g", "h", "i", "j", "k", "l", "m", "n", "o",
    "p", "q", "r", "s", "t", "u", "v", "w", "x", "y", "z">>
UpperCase ==
    <<"A", "B", "C", "D", "E", "F", "G", "H", "I", "J", "K", "L", "M", "N", "O",
    "P", "Q", "R", "S", "T", "U", "V", "W", "X", "Y", "Z">>

spell ==
       ("red" :> <<"r", "e", "d">>)
    @@ ("RED" :> <<"R", "E", "D">>)
    @@ ("error" :> <<"e", "r", "r", "o", "r">>)
    @@ ("line-class" :> <<"l", "i", "n", "e", "-", "c", "l", "a", "s", "s">>)
    @@ ("bg-red" :> <<"b", "g", "-", "r", "e", "d">>)
    @@ ("row1" :> <<"r", "o", "w", "1">>)
    @@ ("rgba(0,0,0,0.1)" :> <<"r", "g", "b", "a", "(", "0", ",", "0", ",", "0", ",", "0", ".", "1", ")">>)
    @@ ("RGB(1,2,3)" :> <<"R", "G", "B", "(", "1", ",", "2", ",", "3", ")">>)
    @@ ("rgb-row" :> <<"r", "g", "b", "-", "r", "o", "w">>)
    @@ ("hsl(0,0%,50%)" :> <<"h", "s", "l", "(", "0", ",", "0", "%", ",", "5", "0", "%", ")">>)
    @@ ("#ff0" :> <<"#", "f", "f", "0">>)
    @@ ("#" :> <<"#">>)
    @@ ("var(--x)" :> <<"v", "a", "r", "(", "-", "-", "x", ")">>)
    @@ ("var(--x" :> <<"v", "a", "r", "(", "-", "-", "x">>)
    @@ ("var(-x)" :> <<"v", "a", "r", "(", "-", "x", ")">>)
    @@ ("VAR(--)" :> <<"V", "A", "R", "(", "-", "-", ")">>)
    @@ ("transparent" :> <<"t", "r", "a", "n", "s", "p", "a", "r", "e", "n", "t">>)
    @@ ("Transparent-row" :> <<"T", "r", "a", "n", "s", "p", "a", "r", "e", "n", "t", "-", "r", "o", "w">>)
    @@ ("currentColor" :> <<"c", "u", "r", "r", "e", "n", "t", "C", "o", "l", "o", "r">>)
    @@ ("currentcolour-1" :> <<"c", "u", "r", "r", "e", "n", "t", "c", "o", "l", "o", "u", "r", "-", "1">>)
    @@ ("inherit" :> <<"i", "n", "h", "e", "r", "i", "t">>)
    @@ ("initial" :> <<"i", "n", "i", "t", "i", "a", "l">>)
    @@ ("unset" :> <<"u", "n", "s", "e", "t">>)
    @@ ("unse-t" :> <<"u", "n", "s", "e", "-", "t">>)
    @@ ("x-unset" :> <<"x", "-", "u", "n", "s", "e", "t">>)
    @@ ("-" :> <<"-">>)
    @@ ("1" :> <<"1">>)

LineTags == DOMAIN spell

\* the i flag: a letter of the pattern matches in either case
toLowerCase(c) ==
    IF \E i \in 1..Len(UpperCase) : UpperCase[i] = c
    THEN LowerCase[CHOOSE i \in 1..Len(UpperCase) : UpperCase[i] = c]
    ELSE c

\* [a-z] under the i flag
isLetter(c) == \E i \in 1..Len(LowerCase) : LowerCase[i] = toLowerCase(c)

\* ^word
startsWith(cs, word) ==
    /\ Len(cs) >= Len(word)
    /\ \A i \in 1..Len(word) : toLowerCase(cs[i]) = toLowerCase(word[i])

\* the alternatives of the first pattern that are plain words
ColorWords ==
    { <<"#">>,
      <<"r", "g", "b">>,
      <<"h", "s", "l">>,
      <<"t", "r", "a", "n", "s", "p", "a", "r", "e", "n", "t">>,
      <<"c", "u", "r", "r", "e", "n", "t", "C", "o", "l", "o", "r">>,
      <<"i", "n", "h", "e", "r", "i", "t">>,
      <<"i", "n", "i", "t", "i", "a", "l">>,
      <<"u", "n", "s", "e", "t">> }

\* ^var\(--.*?\) : the opening, any characters of one line, a closing bracket
startsWithVar(cs) ==
    /\ startsWith(cs, <<"v", "a", "r", "(", "-", "-">>)
    /\ \E j \in 7..Len(cs) : cs[j] = ")" /\ \A m \in 7..(j - 1) : cs[m] # NL

isColorValue(value) ==
    LET cs == spell[value]
    IN  \/ \E word \in ColorWords : startsWith(cs, word)
        \/ startsWithVar(cs)
        \/ cs # <<>> /\ \A i \in 1..Len(cs) : isLetter(cs[i])

createLineElement_classAlways(content, lineIndex, lineHighlight) ==
    IF lineHighlight = ""
    THEN [key |-> lineIndex, className |-> Undefined, backgroundColor |-> Undefined,
          children |-> content]
    ELSE [key |-> lineIndex, className |-> lineHighlight,
          backgroundColor |-> IF isColorValue(lineHighlight) THEN lineHighlight ELSE Undefined,
          children |-> content]

createLineElement(content, lineIndex, lineHighlight) ==
    IF lineHighlight = ""
    THEN [key |-> lineIndex, className |-> Undefined, backgroundColor |-> Undefined,
          children |-> content]
    ELSE LET isColor == isColorValue(lineHighlight)
         IN  [key |-> lineIndex,
              className |-> IF isColor THEN Undefined ELSE lineHighlight,
              backgroundColor |-> IF isColor THEN lineHighlight ELSE Undefined,
              children |-> content]

\* the comparator of ranges.toSorted: a negative, zero or positive number
compareRanges_descending(a, b) == b.start - a.start
compareRanges(a, b) == a.start - b.start

\* Array.prototype.toSorted is stable: insert each element after the elements
\* that do not compare greater than it.
RECURSIVE insertSorted_unstable(_, _)
insertSorted_unstable(sorted, r) ==
    IF sorted = <<>> THEN <<r>>
    ELSE IF compareRanges(sorted[Len(sorted)], r) < 0 THEN Append(sorted, r)
    ELSE Append(insertSorted_unstable(SubSeq(sorted, 1, Len(sorted) - 1), r),
                sorted[Len(sorted)])

RECURSIVE insertSorted(_, _)
insertSorted(sorted, r) ==
    IF sorted = <<>> THEN <<r>>
    ELSE IF compareRanges(sorted[Len(sorted)], r) <= 0 THEN Append(sorted, r)
    ELSE Append(insertSorted(SubSeq(sorted, 1, Len(sorted) - 1), r), sorted[Len(sorted)])

RECURSIVE toSorted(_)
toSorted(ranges) ==
    IF ranges = <<>> THEN <<>>
    ELSE insertSorted(toSorted(SubSeq(ranges, 1, Len(ranges) - 1)), ranges[Len(ranges)])

\* const effectiveStart = Math.max(clampedStart, lastIndex)
effectiveStartOf_ignoreCursor(clampedStart, lastIndex) == clampedStart
effectiveStartOf(clampedStart, lastIndex) == Max2(clampedStart, lastIndex)

\* if (clampedEnd <= lastIndex) return;
isSubsumed(clampedEnd, lastIndex) == clampedEnd <= lastIndex

\* One call of the forEach callback of renderHighlightedLine, for the range at
\* array index idx, on the accumulator acc = [result, lastIndex].
sweepStep(line, sortedRanges, idx, acc) ==
    LET range == sortedRanges[idx + 1]
        clampedStart == Max2(0, Min2(range.start, Len(line)))
        clampedEnd == Max2(clampedStart, Min2(range.end, Len(line)))
        effectiveStart == effectiveStartOf(clampedStart, acc.lastIndex)
        textBefore == slice(line, acc.lastIndex, effectiveStart)
        withBefore ==
            IF effectiveStart > acc.lastIndex /\ textBefore # <<>>
            THEN Append(acc.result, TextChild(textBefore))
            ELSE acc.result
        withSpan ==
            IF clampedEnd > effectiveStart
            THEN Append(withBefore,
                        SpanChild(slice(line, effectiveStart, clampedEnd),
                                  range.className, idx, range.absoluteStart))
            ELSE withBefore
    IN  IF isSubsumed(clampedEnd, acc.lastIndex) THEN acc
        ELSE [result |-> withSpan, lastIndex |-> Max2(acc.lastIndex, clampedEnd)]

RECURSIVE sweep(_, _, _, _)
sweep(line, sortedRanges, idx, acc) ==
    IF idx >= Len(sortedRanges) THEN acc
    ELSE sweep(line, sortedRanges, idx + 1, sweepStep(line, sortedRanges, idx, acc))

\* const textAfter = line.slice(lastIndex)
trailingText_dropped(line, lastIndex) == <<>>
trailingText(line, lastIndex) == slice(line, lastIndex, Len(line))

renderHighlightedLine_noPlaceholder(line, lineIndex, ranges, lineHighlight) ==
    IF Len(ranges) = 0
    THEN createLineElement(<<TextChild(IF line # <<>> THEN line ELSE <<NBSP>>)>>,
                           lineIndex, lineHighlight)
    ELSE LET sortedRanges == toSorted(ranges)
             swept == sweep(line, sortedRanges, 0, [result |-> <<>>, lastIndex |-> 0])
             textAfter == trailingText(line, swept.lastIndex)
             result ==
                 IF swept.lastIndex < Len(line) /\ textAfter # <<>>
                 THEN Append(swept.result, TextChild(textAfter))
                 ELSE swept.result
             content == result
         IN  createLineElement(content, lineIndex, lineHighlight)

renderHighlightedLine(line, lineIndex, ranges, lineHighlight) ==
    IF Len(ranges) = 0
    THEN createLineElement(<<TextChild(IF line # <<>> THEN line ELSE <<NBSP>>)>>,
                           lineIndex, lineHighlight)
    ELSE LET sortedRanges == toSorted(ranges)
             swept == sweep(line, sortedRanges, 0, [result |-> <<>>, lastIndex |-> 0])
             textAfter == trailingText(line, swept.lastIndex)
             result ==
                 IF swept.lastIndex < Len(line) /\ textAfter # <<>>
                 THEN Append(swept.result, TextChild(textAfter))
                 ELSE swept.result
             content == IF Len(result) = 0 THEN <<TextChild(<<NBSP>>)>> ELSE result
         IN  createLineElement(content, lineIndex, lineHighlight)

(***************************************************************************)
(* hooks/useHighlightedContent.ts: computeHighlightedContent               *)
(***************************************************************************)
\* What one highlight pushes onto highlightsByLine[lineIndex]: nothing, or
\* its sub-range clipped to the line.
clipToLine_maxEnd(highlight, lineIndex, lp) ==
    LET startPos == absoluteToLinePos(highlight.start, lp.lineStarts)
        endPos == absoluteToLinePos(highlight.end - 1, lp.lineStarts)
        lineStart == lp.lineStarts[lineIndex + 1]
        rangeStart == Max2(highlight.start - lineStart, 0)
        rangeEnd == Max2(highlight.end - lineStart, Len(lp.lines[lineIndex + 1]))
    IN  IF startPos.line <= lineIndex /\ lineIndex <= endPos.line /\ rangeEnd > rangeStart
        THEN <<[absoluteStart |-> highlight.start, className |-> highlight.className,
                end |-> rangeEnd, start |-> rangeStart]>>
        ELSE <<>>

clipToLine_startLineOnly(highlight, lineIndex, lp) ==
    LET startPos == absoluteToLinePos(highlight.start, lp.lineStarts)
        lineStart == lp.lineStarts[lineIndex + 1]
        rangeStart == Max2(highlight.start - lineStart, 0)
        rangeEnd == Min2(highlight.end - lineStart, Len(lp.lines[lineIndex + 1]))
    IN  IF startPos.line = lineIndex /\ rangeEnd > rangeStart
        THEN <<[absoluteStart |-> highlight.start, className |-> highlight.className,
                end |-> rangeEnd, start |-> rangeStart]>>
        ELSE <<>>

clipToLine(highlight, lineIndex, lp) ==
    LET startPos == absoluteToLinePos(highlight.start, lp.lineStarts)
        endPos == absoluteToLinePos(highlight.end - 1, lp.lineStarts)
        lineStart == lp.lineStarts[lineIndex + 1]
        rangeStart == Max2(highlight.start - lineStart, 0)
        rangeEnd == Min2(highlight.end - lineStart, Len(lp.lines[lineIndex + 1]))
    IN  IF startPos.line <= lineIndex /\ lineIndex <= endPos.line /\ rangeEnd > rangeStart
        THEN <<[absoluteStart |-> highlight.start, className |-> highlight.className,
                end |-> rangeEnd, start |-> rangeStart]>>
        ELSE <<>>

\* highlightsByLine[lineIndex] after the forEach over highlights[1..n]: the
\* pushes happen in declaration order.
RECURSIVE highlightsByLine(_, _, _, _)
highlightsByLine(hs, n, lineIndex, lp) ==
    IF n = 0 THEN <<>>
    ELSE highlightsByLine(hs, n - 1, lineIndex, lp) \o clipToLine(hs[n], lineIndex, lp)

lineHighlightOf(lineHighlights, lineIndex) ==
    IF lineIndex \in DOMAIN lineHighlights THEN lineHighlights[lineIndex] ELSE NoLineHighlight

computeHighlightedContent(s, hs, lineHighlights) ==
    LET lp == getLinePositions(s)
    IN  [i \in 1..Len(lp.lines) |->
            renderHighlightedLine(lp.lines[i], i - 1,
                                  highlightsByLine(hs, Len(hs), i - 1, lp),
                                  lineHighlightOf(lineHighlights, i - 1))]

\* the instance variables while only the text pipeline runs
NoInstance ==
    /\ mounted = FALSE
    /\ isControlled = FALSE
    /\ dl = <<>>
    /\ widget = <<>>
    /\ overlay = <<>>
    /\ lastOp = <<>>
    /\ got = Undefined
    /\ lastFrame = <<>>
    /\ telemetry = <<>>

\* the boxes while no geometry is looked at
NoGeometry ==
    /\ textarea = <<>>
    /\ highlightLayer = <<>>
    /\ geoOp = <<>>

(***************************************************************************)
(* SegSpec: the text pipeline on bounded inputs.                           *)
(*                                                                         *)
(* Init draws a text.  ComputeContent applies computeHighlightedContent to *)
(* it with no highlight, and AddHighlight recomputes the content with one  *)
(* more range, as the useMemo of useHighlightedContent does when the       *)
(* highlights prop changes.  RenderLine / AddLineRange do the same with a  *)
(* direct call of renderHighlightedLine (as DyeLight.test.tsx calls it) on *)
(* a text without line break and with the ranges as given, unclipped.      *)
(* RenderQuestioner is the call of that test.                              *)
(***************************************************************************)
ClassNames == <<"c1", "c2", "c3", "c4">>

Ranges == [start : Offsets, end : Offsets]

declare(hs, r) ==
    Append(hs, [start |-> r.start, end |-> r.end, className |-> ClassNames[Len(hs) + 1]])

\* DyeLight.test.tsx, 'does not duplicate text when highlight ranges overlap'
Questioner == <<"Q", "u", "e", "s", "t", "i", "o", "n", "e", "r">>
QuestionerRanges ==
    << [start |-> 0, end |-> 10, className |-> "outer"],
       [start |-> 7, end |-> 10, className |-> "inner"] >>

\* useHighlightedContent.test.tsx, 'groups highlights by line and provides
\* range metadata': a text with letters on two lines, at the shortest
TwoLines == <<Alphabet[1], NL, Alphabet[3]>>

\* the ranges argument of a direct renderHighlightedLine call
asLineRanges(hs) ==
    [i \in 1..Len(hs) |->
        [absoluteStart |-> hs[i].start, className |-> hs[i].className,
         end |-> hs[i].end, start |-> hs[i].start]]

SegInit ==
    /\ segPhase = "input"
    /\ text \in Texts \cup {Questioner, TwoLines}
    /\ highlights = <<>>
    /\ rendered = <<>>
    /\ NoInstance
    /\ NoGeometry

ComputeContent ==
    /\ segPhase = "input"
    /\ text \in Texts \cup {TwoLines}
    /\ segPhase' = "content"
    /\ rendered' = computeHighlightedContent(text, highlights, <<>>)
    /\ UNCHANGED <<text, highlights, dlVars, geoVars>>

AddHighlight ==
    /\ segPhase = "content"
    /\ Len(highlights) < MaxRanges
    /\ \E r \in Ranges :
         /\ highlights' = declare(highlights, r)
         /\ rendered' = computeHighlightedContent(text, highlights', <<>>)
    /\ UNCHANGED <<segPhase, text, dlVars, geoVars>>

RenderLine ==
    /\ segPhase = "input"
    /\ text \in Texts
    /\ \A i \in 1..Len(text) : text[i] # NL
    /\ segPhase' = "line"
    /\ rendered' = <<renderHighlightedLine(text, 0, asLineRanges(highlights), NoLineHighlight)>>
    /\ UNCHANGED <<text, highlights, dlVars, geoVars>>

AddLineRange ==
    /\ segPhase = "line"
    /\ Len(highlights) < MaxRanges
    /\ \E r \in Ranges :
         /\ highlights' = declare(highlights, r)
         /\ rendered' = <<renderHighlightedLine(text, 0, asLineRanges(highlights'),
                                                NoLineHighlight)>>
    /\ UNCHANGED <<segPhase, text, dlVars, geoVars>>

RenderQuestioner ==
    /\ segPhase = "input"
    /\ text = Questioner
    /\ segPhase' = "example"
    /\ highlights' = QuestionerRanges
    /\ rendered' = <<renderHighlightedLine(text, 0, asLineRanges(highlights'), NoLineHighlight)>>
    /\ UNCHANGED <<text, dlVars, geoVars>>

\* getLinePositions called on its own
LinePositions ==
    /\ segPhase = "input"
    /\ text \in Texts
    /\ segPhase' = "positions"
    /\ rendered' = getLinePositions(text)
    /\ UNCHANGED <<text, highlights, dlVars, geoVars>>

\* absoluteToLinePos called on its own, with the line starts of the text or
\* with an empty array
ResolveOffset ==
    /\ segPhase = "positions"
    /\ \E absolutePos \in Offsets, lineStarts \in {rendered.lineStarts, <<>>} :
         rendered' = [absolutePos |-> absolutePos, lineStarts |-> lineStarts,
                      pos |-> absoluteToLinePos(absolutePos, lineStarts)]
    /\ segPhase' = "resolved"
    /\ UNCHANGED <<text, highlights, dlVars, geoVars>>

SegNext ==
    \/ LinePositions
    \/ ResolveOffset
    \/ ComputeContent
    \/ AddHighlight
    \/ RenderLine
    \/ AddLineRange
    \/ RenderQuestioner

SegSpec == SegInit /\ [][SegNext]_vars

(***************************************************************************)
(* Spec: one component instance.                                           *)
(*                                                                         *)
(* dl holds what a DyeLight instance and its textarea hold:                *)
(*   internalValue, renderValue   the two useState cells of                *)
(*                                useTextareaValue, as last committed      *)
(*   pendingInternal, pendingRender                                        *)
(*                                the value of the last setInternalValue / *)
(*                                setRenderValue call not yet rendered     *)
(*                                (the calls replace the state, so the     *)
(*                                last one decides the next render)        *)
(*   value                        the value prop of the last render        *)
(*   ownerValue                   the owner's state: the value prop of     *)
(*                                the next render                          *)
(*   ownerQueue                   owner answers still in a timer           *)
(*   dom                          textarea.value                           *)
(*   textarea, highlightLayer     TRUE while the ref is attached           *)
(*   effects                      passive effects of the last commit that  *)
(*                                have not run yet                         *)
(*   syncFrameId                  the ref of useHighlightSync (NoFrame for *)
(*                                undefined)                               *)
(*   rafQueue                     the browser's pending animation frame    *)
(*                                callbacks, each a sync pass              *)
(*   requests                     history: the syncLayout calls since the  *)
(*                                last frame: 0, 1 or 2 for several        *)
(*   calls                        history: the onChange calls of the last  *)
(*                                operation                                *)
(*   trace                        history: the steps of the last operation *)
(*                                on the value, in the order they ran      *)
(*                                                                         *)
(* The host framework is the environment: an event handler runs to its     *)
(* end; a user edit is a discrete event, so the render it asks for, the    *)
(* commit and the passive effects follow in the same step; a render asked  *)
(* for from a timer, from the imperative handle or from an effect is a     *)
(* later step (Render) and its passive effects another one (FlushEffects), *)
(* run at the latest before the next render.  Animation frames (Frame)     *)
(* come at any time between two steps.  Auto-resize is not part of this    *)
(* model (enableAutoResize = false).                                       *)
(***************************************************************************)
MaxOwnerQueue == 1
MaxFrameIds == 2
MaxScroll == 1

Values == {"", "a", "ab"}
NoFrame == 0
FrameIds == 1..MaxFrameIds

\* how the owner answers one onChange call: with a new value prop set in the
\* handler (sync), set from a timer (async), or not at all (val = Undefined)
\* the values the owner answers with
OwnerValues == {"", "a"}
OwnerAnswers == [how : {"sync", "async"}, val : OwnerValues]
NoAnswer == [how |-> "sync", val |-> Undefined]

\* useTextareaValue: const currentValue = isControlled ? renderValue : internalValue
currentValueOf(c) == IF isControlled THEN c.renderValue ELSE c.internalValue

setInternalValue(c, v) ==
    [c EXCEPT !.pendingInternal = v, !.trace = Append(@, "setInternalValue")]
setRenderValue(c, v) ==
    [c EXCEPT !.pendingRender = v, !.trace = Append(@, "setRenderValue")]

\* the onChange prop: the call is recorded and the owner answers
onChange(c, v, answer) ==
    LET called == [c EXCEPT !.calls = Append(@, v), !.trace = Append(@, "onChange")]
    IN  IF ~isControlled \/ answer.val = Undefined THEN called
        ELSE IF answer.how = "sync" THEN [called EXCEPT !.ownerValue = answer.val]
        ELSE [called EXCEPT !.ownerQueue = Append(@, answer.val)]

syncValueWithDOM_ignoresMode(c, currentValue, answer) ==
    IF ~c.textarea THEN c
    ELSE IF c.dom # currentValue
         THEN onChange(setInternalValue(c, c.dom), c.dom, answer)
         ELSE c
syncValueWithDOM(c, currentValue, answer) ==
    IF ~c.textarea THEN c
    ELSE IF isControlled THEN c
    ELSE IF c.dom # currentValue
         THEN onChange(setInternalValue(c, c.dom), c.dom, answer)
         ELSE c

handleChangeValue_notifiesFirst(c, newValue, currentValue, answer) ==
    IF newValue = currentValue THEN c
    ELSE LET notified == onChange(c, newValue, answer)
         IN  IF isControlled THEN setRenderValue(notified, newValue)
             ELSE setInternalValue(notified, newValue)

handleChangeValue_adoptsRaw(c, newValue, currentValue, answer) ==
    IF newValue = currentValue THEN c
    ELSE onChange(setInternalValue(c, newValue), newValue, answer)

handleChangeValue(c, newValue, currentValue, answer) ==
    IF newValue = currentValue THEN c
    ELSE onChange(IF isControlled THEN setRenderValue(c, newValue)
                  ELSE setInternalValue(c, newValue),
                  newValue, answer)

applySetValue_noGuard(c, newValue, answer) ==
    LET written == [c EXCEPT !.dom = newValue, !.trace = Append(@, "write")]
    IN  onChange(IF isControlled THEN setRenderValue(written, newValue)
                 ELSE setInternalValue(written, newValue),
                 newValue, answer)
applySetValue_notifiesFirst(c, newValue, answer) ==
    IF ~c.textarea THEN c
    ELSE LET notified == onChange(c, newValue, answer)
             written == [notified EXCEPT !.dom = newValue, !.trace = Append(@, "write")]
         IN  IF isControlled THEN setRenderValue(written, newValue)
             ELSE setInternalValue(written, newValue)

applySetValue_bothCells(c, newValue, answer) ==
    IF ~c.textarea THEN c
    ELSE LET written == [c EXCEPT !.dom = newValue, !.trace = Append(@, "write")]
         IN  onChange(setRenderValue(setInternalValue(written, newValue), newValue),
                      newValue, answer)

applySetValue(c, newValue, answer) ==
    IF ~c.textarea THEN c
    ELSE LET written == [c EXCEPT !.dom = newValue, !.trace = Append(@, "write")]
         IN  onChange(IF isControlled THEN setRenderValue(written, newValue)
                      ELSE setInternalValue(written, newValue),
                      newValue, answer)

\* useTextareaValue, the effect on [isControlled, value, renderValue]
controlledPropEffect_keepsMirror(c) == c
controlledPropEffect(c) ==
    IF ~isControlled THEN c
    ELSE IF c.value # c.renderValue THEN setRenderValue(c, c.value)
    ELSE c

(***************************************************************************)
(* hooks/useHighlightSync                                                  *)
(***************************************************************************)
\* the browser: requestAnimationFrame returns a handle no pending callback
\* has and which is not the one just replaced
freeFrameIds(c) ==
    { id \in FrameIds : id # c.syncFrameId /\ \A k \in 1..Len(c.rafQueue) : c.rafQueue[k] # id }

canRequestFrame(c) == freeFrameIds(c) # {}

requestAnimationFrame(c) ==
    LET id == CHOOSE i \in freeFrameIds(c) : \A j \in freeFrameIds(c) : i <= j
    IN  [c EXCEPT !.syncFrameId = id, !.rafQueue = Append(@, id),
                  !.requests = Min2(@ + 1, 2)]

cancelAnimationFrame(c, id) ==
    [c EXCEPT !.rafQueue = SelectSeq(@, LAMBDA x : x # id)]

\* (the argument is bound to a name so that it is evaluated once)
syncLayout_noCancel(c) ==
    CHOOSE after \in { requestAnimationFrame(x) : x \in {c} } : TRUE
syncLayout(c) ==
    CHOOSE after \in { requestAnimationFrame(IF x.syncFrameId # NoFrame
                                             THEN cancelAnimationFrame(x, x.syncFrameId)
                                             ELSE x) : x \in {c} } : TRUE

cancelPendingSync_keepsFrame(c) == c
cancelPendingSync(c) ==
    IF c.syncFrameId = NoFrame THEN c
    ELSE [cancelAnimationFrame(c, c.syncFrameId) EXCEPT !.syncFrameId = NoFrame]

\* A sync pass works on p = [c, overlay, log, wrote]: c is dl, log the steps
\* of the pass in call order, wrote tells whether the overlay was written.
syncStyles(p) ==
    LET logged == [p EXCEPT !.log = Append(@, "syncStyles")]
    IN  IF ~p.c.textarea \/ ~p.c.highlightLayer THEN logged
        ELSE [logged EXCEPT !.overlay.style = widget.style, !.wrote = TRUE]

syncScroll(p) ==
    LET logged == [p EXCEPT !.log = Append(@, "syncScroll")]
    IN  IF ~p.c.textarea \/ ~p.c.highlightLayer THEN logged
        ELSE [logged EXCEPT !.overlay.scroll = widget.scroll, !.wrote = TRUE]

\* the callback syncLayout hands to requestAnimationFrame
syncPass_scrollFirst(p) ==
    [syncStyles(syncScroll(p)) EXCEPT !.c.syncFrameId = NoFrame]
syncPass_keepsToken(p) == syncScroll(syncStyles(p))
syncPass_resyncs(p) ==
    LET q == [syncScroll(syncStyles(p)) EXCEPT !.c.syncFrameId = NoFrame]
    IN  [q EXCEPT !.c = syncLayout(q.c)]
syncPass(p) ==
    [syncScroll(syncStyles(p)) EXCEPT !.c.syncFrameId = NoFrame]

RECURSIVE runFrameCallbacks(_, _)
runFrameCallbacks(p, n) ==
    IF n = 0 THEN p ELSE runFrameCallbacks(syncPass(p), n - 1)

(***************************************************************************)
(* DyeLight: render, commit and effects                                    *)
(***************************************************************************)
renderNeeded(c) ==
    \/ c.pendingInternal # Undefined
    \/ c.pendingRender # Undefined
    \/ c.ownerValue # c.value

\* One render and commit.  The state cells take the pending values, the value
\* prop is the owner's state when the owner renders too (withOwner).  When
\* something changed, React writes value={currentValue} to the textarea, the
\* layout effects on layoutSyncKey and on currentValue both call syncLayout
\* when currentValue changed (syncLayout is a new function then), and the
\* passive effects whose dependencies changed become due (an effect that
\* returns at once in this mode is left out); the effect that calls
\* syncValueWithDOM depends on onChange too, which the owner may or may not
\* keep stable (onChangeChanged).
commit(c, withOwner, onChangeChanged) ==
    LET internalValue == IF c.pendingInternal # Undefined THEN c.pendingInternal ELSE c.internalValue
        renderValue == IF c.pendingRender # Undefined THEN c.pendingRender ELSE c.renderValue
        value == IF withOwner THEN c.ownerValue ELSE c.value
        cleared == [c EXCEPT !.pendingInternal = Undefined, !.pendingRender = Undefined]
        next == [cleared EXCEPT !.internalValue = internalValue, !.renderValue = renderValue,
                                !.value = value]
        valueChanged == currentValueOf(next) # currentValueOf(c)
        written == [next EXCEPT !.dom = currentValueOf(next)]
        due == (IF ~isControlled /\ (valueChanged \/ onChangeChanged)
                THEN {"syncValueWithDOM"} ELSE {})
               \cup (IF isControlled /\ (value # c.value \/ renderValue # c.renderValue)
                     THEN {"controlledProp"} ELSE {})
               \cup (IF valueChanged THEN {"valueMismatch"} ELSE {})
    IN  IF next = cleared /\ ~onChangeChanged THEN cleared
        ELSE [(IF valueChanged THEN syncLayout(syncLayout(written)) ELSE written)
                EXCEPT !.effects = @ \cup due]

canCommit(c) == canRequestFrame(c)

\* The effect on currentValue that compares the textarea with it: a
\* difference is handed to telemetry.record as a valueMismatch anomaly
\* (anomalies lists the calls of the step).
valueMismatchEffect(c) ==
    IF c.textarea /\ c.dom # currentValueOf(c)
    THEN [c EXCEPT !.anomalies = Append(@, "valueMismatch")]
    ELSE c

\* the passive effects that are due, in declaration order
flushEffects(c, answer) ==
    LET synced == IF "syncValueWithDOM" \in c.effects
                  THEN syncValueWithDOM(c, currentValueOf(c), answer) ELSE c
        mirrored == IF "controlledProp" \in c.effects
                    THEN controlledPropEffect(synced) ELSE synced
        compared == IF "valueMismatch" \in c.effects
                    THEN valueMismatchEffect(mirrored) ELSE mirrored
    IN  [compared EXCEPT !.effects = {}]

(***************************************************************************)
(* Init and the operations                                                 *)
(***************************************************************************)
\* the instance as first rendered with value ?? defaultValue = seed
InitInstance(seed) ==
    [ defaultValue |-> seed, internalValue |-> seed, renderValue |-> seed,
      pendingInternal |-> Undefined, pendingRender |-> Undefined,
      value |-> IF isControlled THEN seed ELSE Undefined,
      ownerValue |-> IF isControlled THEN seed ELSE Undefined,
      ownerQueue |-> <<>>,
      dom |-> seed, textarea |-> TRUE, highlightLayer |-> TRUE,
      effects |-> {},
      syncFrameId |-> NoFrame, rafQueue |-> <<>>, requests |-> 0,
      calls |-> <<>>, trace |-> <<>>, anomalies |-> <<>> ]

NoOp == [op |-> "none", arg |-> Undefined]
NoFrameYet == [ran |-> <<>>, log |-> <<>>, wrote |-> FALSE, requests |-> 0,
               mounted |-> TRUE]

\* an empty editor after it mounted: the two layout effects have called
\* syncLayout
Init ==
    /\ segPhase = "off"
    /\ text = <<>>
    /\ highlights = <<>>
    /\ rendered = <<>>
    /\ mounted = TRUE
    /\ isControlled \in BOOLEAN
    /\ dl = syncLayout(syncLayout(InitInstance("")))
    /\ widget = [style |-> "ltr", scroll |-> 0]
    /\ overlay = [style |-> "none", scroll |-> 0]
    /\ lastOp = NoOp
    /\ got = Undefined
    /\ lastFrame = NoFrameYet
    /\ telemetry = <<>>
    /\ NoGeometry

Answers == IF isControlled THEN OwnerAnswers \cup {NoAnswer} ELSE {NoAnswer}

answerFits(c, answer) ==
    answer.how = "async" /\ answer.val # Undefined => Len(c.ownerQueue) < MaxOwnerQueue

fresh(c) == [c EXCEPT !.calls = <<>>, !.trace = <<>>, !.anomalies = <<>>]

\* The user changes the text: the browser sets textarea.value and React
\* calls handleChange of the last render.  Passive effects still due run
\* before the handler or before the render, as the framework decides
\* (effectsFirst).  When the handler asked for a render it happens now and
\* its own passive effects follow; otherwise React restores the rendered value.
UserEdit ==
    /\ mounted
    /\ \E raw \in Values \ {dl.dom}, answer \in Answers, effectsFirst \in BOOLEAN :
         LET typed == [fresh(dl) EXCEPT !.dom = raw]
             early == IF effectsFirst THEN flushEffects(typed, NoAnswer) ELSE typed
             handled == handleChangeValue(early, raw, currentValueOf(typed), answer)
             withOwner == handled.ownerValue # typed.ownerValue
             before == flushEffects(handled, NoAnswer)
             committed == commit(before, withOwner, FALSE)
         IN  /\ effectsFirst => dl.effects # {}
             /\ answerFits(typed, answer)
             /\ canCommit(before)
             /\ dl' = IF Len(handled.calls) > Len(early.calls)
                      THEN flushEffects(committed, NoAnswer)
                      ELSE [handled EXCEPT !.dom = currentValueOf(handled)]
             /\ lastOp' = [op |-> "userEdit", arg |-> raw]
    /\ got' = Undefined
    /\ lastFrame' = NoFrameYet
    /\ UNCHANGED <<segVars, geoVars, mounted, isControlled, widget, overlay, telemetry>>

\* ref.setValue(newValue): setValueWithResize of DyeLight
SetValue ==
    /\ mounted
    /\ \E newValue \in Values, answer \in Answers :
         LET set == applySetValue(fresh(dl), newValue, answer)
         IN  /\ answerFits(dl, answer)
             /\ canRequestFrame(set)
             /\ dl' = syncLayout(set)
             /\ lastOp' = [op |-> "setValue", arg |-> newValue]
    /\ got' = Undefined
    /\ lastFrame' = NoFrameYet
    /\ UNCHANGED <<segVars, geoVars, mounted, isControlled, widget, overlay, telemetry>>

\* ref.getValue(): the handle of the last commit returns its currentValue
GetValue ==
    /\ mounted
    /\ got' = currentValueOf(dl)
    /\ lastOp' = [op |-> "getValue",
                  arg |-> IF lastOp.op = "setValue" THEN lastOp.arg ELSE Undefined]
    /\ dl' = fresh(dl)
    /\ lastFrame' = NoFrameYet
    /\ UNCHANGED <<segVars, geoVars, mounted, isControlled, widget, overlay, telemetry>>

\* a timer of the owner fires and sets the owner's state
OwnerDeliver ==
    /\ mounted
    /\ dl.ownerQueue # <<>>
    /\ dl' = [fresh(dl) EXCEPT !.ownerValue = Head(dl.ownerQueue), !.ownerQueue = Tail(@)]
    /\ lastOp' = [op |-> "ownerDeliver", arg |-> Undefined]
    /\ got' = Undefined
    /\ lastFrame' = NoFrameYet
    /\ UNCHANGED <<segVars, geoVars, mounted, isControlled, widget, overlay, telemetry>>

\* the owner changes its state on its own
OwnerUpdate ==
    /\ mounted
    /\ isControlled
    /\ \E v \in OwnerValues \ {dl.ownerValue} :
         /\ dl' = [fresh(dl) EXCEPT !.ownerValue = v]
         /\ lastOp' = [op |-> "ownerUpdate", arg |-> Undefined]
    /\ got' = Undefined
    /\ lastFrame' = NoFrameYet
    /\ UNCHANGED <<segVars, geoVars, mounted, isControlled, widget, overlay, telemetry>>

Render ==
    /\ mounted
    /\ renderNeeded(dl)
    /\ \E onChangeChanged \in BOOLEAN, before \in {flushEffects(fresh(dl), NoAnswer)} :
         /\ canCommit(before)
         /\ dl' = commit(before, TRUE, onChangeChanged)
    /\ lastOp' = [op |-> "render",
                  arg |-> IF isControlled /\ dl'.value # dl.value THEN dl'.value ELSE Undefined]
    /\ got' = Undefined
    /\ lastFrame' = NoFrameYet
    /\ UNCHANGED <<segVars, geoVars, mounted, isControlled, widget, overlay, telemetry>>

FlushEffects ==
    /\ mounted
    /\ dl.effects # {}
    /\ dl' = flushEffects(fresh(dl), NoAnswer)
    /\ lastOp' = [op |-> "effects", arg |-> Undefined]
    /\ got' = Undefined
    /\ lastFrame' = NoFrameYet
    /\ UNCHANGED <<segVars, geoVars, mounted, isControlled, widget, overlay, telemetry>>

\* onScroll of the textarea: handleScroll
Scroll ==
    /\ mounted
    /\ canRequestFrame(dl)
    /\ \E to \in (0..MaxScroll) \ {widget.scroll} : widget' = [widget EXCEPT !.scroll = to]
    /\ dl' = syncLayout(fresh(dl))
    /\ lastOp' = [op |-> "scroll", arg |-> Undefined]
    /\ got' = Undefined
    /\ lastFrame' = NoFrameYet
    /\ UNCHANGED <<segVars, geoVars, mounted, isControlled, overlay, telemetry>>

\* onSelect, document selectionchange, the ResizeObserver callback
Trigger ==
    /\ mounted
    /\ canRequestFrame(dl)
    /\ dl' = syncLayout(fresh(dl))
    /\ lastOp' = [op |-> "trigger", arg |-> Undefined]
    /\ got' = Undefined
    /\ lastFrame' = NoFrameYet
    /\ UNCHANGED <<segVars, geoVars, mounted, isControlled, widget, overlay, telemetry>>

\* an animation frame: the browser runs the pending callbacks
Frame ==
    /\ LET p == runFrameCallbacks([c |-> dl, overlay |-> overlay, log |-> <<>>, wrote |-> FALSE],
                                  Len(dl.rafQueue))
       IN  /\ dl' = [p.c EXCEPT !.rafQueue = <<>>, !.requests = 0, !.calls = <<>>,
                            !.trace = <<>>, !.anomalies = <<>>]
           /\ overlay' = p.overlay
           /\ lastFrame' = [ran |-> dl.rafQueue, log |-> p.log, wrote |-> p.wrote,
                            requests |-> dl.requests, mounted |-> mounted]
    /\ lastOp' = [op |-> "frame", arg |-> Undefined]
    /\ got' = Undefined
    /\ UNCHANGED <<segVars, geoVars, mounted, isControlled, widget, telemetry>>

\* the component unmounts: the effect cleanups run and React detaches the refs
Unmount ==
    /\ mounted
    /\ mounted' = FALSE
    /\ dl' = [cancelPendingSync(fresh(dl)) EXCEPT !.textarea = FALSE, !.highlightLayer = FALSE,
                                                   !.effects = {},
                                                   !.pendingInternal = Undefined,
                                                   !.pendingRender = Undefined,
                                                   !.ownerQueue = <<>>]
    /\ lastOp' = [op |-> "unmount", arg |-> Undefined]
    /\ got' = Undefined
    /\ lastFrame' = NoFrameYet
    /\ UNCHANGED <<segVars, geoVars, isControlled, widget, overlay, telemetry>>

Next ==
    \/ UserEdit
    \/ SetValue
    \/ GetValue
    \/ OwnerDeliver
    \/ OwnerUpdate
    \/ Render
    \/ FlushEffects
    \/ Scroll
    \/ Trigger
    \/ Frame
    \/ Unmount

Spec == Init /\ [][Next]_vars

\* A controlled editor that only its user and its owner change.  React's
\* scheduler runs the render and the passive effects it has queued, and a
\* timer the owner has set fires.
LiveInit == Init /\ isControlled

LiveNext ==
    \/ UserEdit
    \/ OwnerDeliver
    \/ OwnerUpdate
    \/ Render
    \/ FlushEffects
    \/ Frame
    \/ Unmount

LiveSpec ==
    /\ LiveInit
    /\ [][LiveNext]_vars
    /\ WF_vars(Render)
    /\ WF_vars(FlushEffects)
    /\ WF_vars(OwnerDeliver)

(***************************************************************************)
(* Reading a rendered line back.                                           *)
(***************************************************************************)
RECURSIVE concatText(_)
concatText(children) ==
    IF children = <<>> THEN <<>>
    ELSE children[1].text \o concatText(Tail(children))

isPlaceholder(element) == element.children = <<TextChild(<<NBSP>>)>>

\* the text a rendered line shows, the placeholder of an empty line ignored
shownText(element) ==
    IF isPlaceholder(element) THEN <<>> ELSE concatText(element.children)

RECURSIVE joinShown(_)
joinShown(elements) ==
    IF elements = <<>> THEN <<>>
    ELSE IF Len(elements) = 1 THEN shownText(elements[1])
    ELSE shownText(elements[1]) \o <<NL>> \o joinShown(Tail(elements))

spansOf(element) == SelectSeq(element.children, LAMBDA ch : ch.span)

\* the 0-based offset, in a text of Texts, of the letter c
offsetOfLetter(c) == (CHOOSE n \in 1..Len(Alphabet) : Alphabet[n] = c) - 1

lineBreaks(s) == { i \in 1..Len(s) : s[i] = NL }

overlapOnLetter(s, r1, r2) ==
    \E p \in 0..(Len(s) - 1) :
        /\ s[p + 1] # NL
        /\ r1.start <= p /\ p < r1.end
        /\ r2.start <= p /\ p < r2.end

(***************************************************************************)
(* C1 - Reconstruction.  After computeHighlightedContent there is one      *)
(* rendered line per line of the text (number of line breaks plus one) and *)
(* the lines' children, concatenated in order and joined with a line       *)
(* break, spell the text: no character lost, duplicated or moved.  A       *)
(* direct renderHighlightedLine call returns one line that spells its      *)
(* line argument.                                                          *)
(***************************************************************************)
C1_Reconstruction ==
    segPhase \in {"content", "line", "example"} =>
        /\ Len(rendered) = Cardinality(lineBreaks(text)) + 1
        /\ joinShown(rendered) = text

C1_Witness ==
    /\ segPhase = "content"
    /\ lineBreaks(text) # {}
    /\ Len(highlights) = 2
    /\ overlapOnLetter(text, highlights[1], highlights[2])
    /\ joinShown(rendered) = text

(***************************************************************************)
(* C2 - No-overlap.  In every rendered line the <span> children are        *)
(* non-empty and the characters they hold, read span after span, stand at  *)
(* strictly ascending offsets of the text: no offset is covered by two     *)
(* spans and the spans are in position order.                              *)
(***************************************************************************)
ascendingOffsets(letters) ==
    \A i \in 1..(Len(letters) - 1) :
        offsetOfLetter(letters[i]) < offsetOfLetter(letters[i + 1])

C2_NoOverlap ==
    (segPhase \in {"content", "line"}) =>
        \A i \in 1..Len(rendered) :
            /\ \A k \in 1..Len(spansOf(rendered[i])) : spansOf(rendered[i])[k].text # <<>>
            /\ ascendingOffsets(concatText(spansOf(rendered[i])))

C2_Witness ==
    /\ segPhase = "line"
    /\ Len(highlights) = 2
    /\ overlapOnLetter(text, highlights[1], highlights[2])
    /\ Len(spansOf(rendered[1])) = 2

(***************************************************************************)
(* C3 - Earliest-start-wins.  On each line the cursor met by a range is    *)
(* the greatest clipped end among the ranges swept before it (those with a *)
(* smaller start, or an equal start and an earlier declaration).  A range  *)
(* whose clipped end is at or before its cursor has no <span>; a range     *)
(* that starts before its cursor and ends after it has one <span>, holding *)
(* the text from the cursor to its clipped end.  The call of the test,     *)
(* ranges [0,10) 'outer' and [7,10) 'inner' over 'Questioner', returns one *)
(* child: the <span> of 'outer' holding the whole word.                    *)
(***************************************************************************)
\* the line and the ranges argument of the renderHighlightedLine call that
\* produced rendered[i]
lineArgOf(i) ==
    IF segPhase = "content" THEN getLinePositions(text).lines[i] ELSE text

rangesArgOf(i) ==
    IF segPhase = "content"
    THEN highlightsByLine(highlights, Len(highlights), i - 1, getLinePositions(text))
    ELSE asLineRanges(highlights)

clippedStartOf(r, line) == Max2(0, Min2(r.start, Len(line)))
clippedEndOf(r, line) == Max2(clippedStartOf(r, line), Min2(r.end, Len(line)))

sweptBefore(rs, j, k) ==
    rs[j].start < rs[k].start \/ (rs[j].start = rs[k].start /\ j < k)

RECURSIVE maxOf(_)
maxOf(S) ==
    IF S = {} THEN 0
    ELSE LET x == CHOOSE y \in S : TRUE IN Max2(x, maxOf(S \ {x}))

cursorAt(rs, k, line) ==
    maxOf({ clippedEndOf(rs[j], line) : j \in { j \in 1..Len(rs) : sweptBefore(rs, j, k) } })

spansOfClass(element, className) ==
    SelectSeq(element.children, LAMBDA ch : ch.span /\ ch.className = className)

C3_EarliestStartWins ==
    /\ segPhase \in {"content", "line", "example"} =>
         \A i \in 1..Len(rendered) :
            LET line == lineArgOf(i)
                rs == rangesArgOf(i)
            IN  \A k \in 1..Len(rs) :
                   LET cursor == cursorAt(rs, k, line)
                       mine == spansOfClass(rendered[i], rs[k].className)
                   IN  /\ clippedEndOf(rs[k], line) <= cursor => mine = <<>>
                       /\ (clippedStartOf(rs[k], line) < cursor
                             /\ clippedEndOf(rs[k], line) > cursor)
                            => /\ Len(mine) = 1
                               /\ mine[1].text = slice(line, cursor, clippedEndOf(rs[k], line))
    /\ segPhase = "example" =>
         rendered[1].children = <<SpanChild(Questioner, "outer", 0, 0)>>

C3_Witness ==
    /\ segPhase = "example"
    /\ text = Questioner
    /\ highlights = QuestionerRanges
    /\ Len(spansOf(rendered[1])) = 1

(***************************************************************************)
(* C4 - Round trip: on a mounted component, getValue() called right after  *)
(* setValue(X), with no render committed in between, returns X, in both    *)
(* ownership modes.  The handle of the last commit returns the currentValue*)
(* of that commit, and setValue only asks for a render, so the call        *)
(* returns the value from before setValue.                                 *)
(***************************************************************************)
C4_RoundTrip ==
    lastOp.op = "getValue" /\ lastOp.arg # Undefined => got = lastOp.arg

(***************************************************************************)
(* C5 - Convergence: in controlled mode, whatever the owner answers to     *)
(* each onChange (a normalized value, the value it already supplied, at    *)
(* once or from a timer, or nothing), once the edits stop the raw value of *)
(* the textarea, currentValue and the value prop become equal and stay     *)
(* equal; and in every state in which no render, effect or owner timer is  *)
(* outstanding the three are equal.                                        *)
(***************************************************************************)
Converged ==
    mounted /\ isControlled =>
      /\ dl.dom = currentValueOf(dl)
      /\ currentValueOf(dl) = dl.value
      /\ dl.value = dl.ownerValue

Settled ==
    /\ ~renderNeeded(dl)
    /\ dl.effects = {}
    /\ dl.ownerQueue = <<>>

NoEdit == lastOp'.op \notin {"userEdit", "ownerUpdate"}

C5_Convergence ==
    /\ [](Settled => Converged)
    /\ <>[][NoEdit]_vars => <>[]Converged

\* a controlled editor that has settled on a value its owner supplied: the
\* last render put the mirror back to the value prop and its effect found
\* nothing left to do
C5_Witness ==
    /\ mounted
    /\ isControlled
    /\ Settled
    /\ lastOp.op = "effects"
    /\ dl.value # ""
    /\ dl.dom = dl.value
    /\ dl.renderValue = dl.value

(***************************************************************************)
(* C6 - At most one sync token: in every state at most one frame callback  *)
(* is pending and it is the one of the current token, so a token that a    *)
(* later syncLayout call replaced never runs; a frame on a mounted         *)
(* component runs exactly one pass when syncLayout was called since the    *)
(* last frame, however often, and none otherwise.                          *)
(***************************************************************************)
C6_AtMostOneToken ==
    /\ Len(dl.rafQueue) <= 1
    /\ \A k \in 1..Len(dl.rafQueue) : dl.rafQueue[k] = dl.syncFrameId
    /\ lastOp.op = "frame" /\ lastFrame.mounted =>
         Len(lastFrame.ran) = IF lastFrame.requests > 0 THEN 1 ELSE 0

\* a frame that ran one pass after several syncLayout calls
C6_Witness ==
    /\ lastOp.op = "frame"
    /\ lastFrame.mounted
    /\ lastFrame.requests = 2
    /\ Len(lastFrame.ran) = 1

(***************************************************************************)
(* C7 - Pass ordering: every pass a frame runs is the style step followed  *)
(* by the scroll step, nothing between them and no step of another pass;   *)
(* after a pass on attached elements the overlay has the style and the     *)
(* scroll offset of the textarea.                                          *)
(***************************************************************************)
C7_PassOrdering ==
    lastOp.op = "frame" =>
      /\ Len(lastFrame.log) = 2 * Len(lastFrame.ran)
      /\ \A k \in 1..Len(lastFrame.ran) :
           /\ lastFrame.log[2 * k - 1] = "syncStyles"
           /\ lastFrame.log[2 * k] = "syncScroll"
      /\ lastFrame.wrote => overlay = widget

\* a pass that copied a scroll offset the user had changed
C7_Witness ==
    /\ lastOp.op = "frame"
    /\ lastFrame.log = <<"syncStyles", "syncScroll">>
    /\ lastFrame.wrote
    /\ overlay.scroll = MaxScroll

C9_ChangeNotification ==
    /\ lastOp.op = "userEdit" => dl.calls # <<>> /\ dl.calls[1] = lastOp.arg
    /\ lastOp.op = "setValue" => dl.calls = <<lastOp.arg>>

C11_UncontrolledEdit ==
    [][~isControlled /\ lastOp'.op = "userEdit" /\ lastOp'.arg # currentValueOf(dl) =>
         /\ dl'.trace # <<>>
         /\ dl'.trace[1] = "setInternalValue"
         /\ \E k \in 2..Len(dl'.trace) : dl'.trace[k] = "onChange"
         /\ dl'.calls # <<>>
         /\ \A k \in 1..Len(dl'.calls) : dl'.calls[k] = lastOp'.arg
         /\ dl'.internalValue = lastOp'.arg
         /\ dl'.dom = dl'.internalValue]_vars

\* an uncontrolled edit that replaced a non-empty value
C11_Witness ==
    /\ ~isControlled
    /\ lastOp.op = "userEdit"
    /\ lastOp.arg = "ab"
    /\ dl.trace = <<"setInternalValue", "onChange">>
    /\ dl.calls = <<"ab">>
    /\ dl.internalValue = "ab"
    /\ dl.dom = "ab"

(***************************************************************************)
(* C12 - setValue step order: setValue(X) on an attached textarea, within  *)
(* the call, writes X to textarea.value, then calls the setter of          *)
(* internalValue (uncontrolled) or of renderValue (controlled) with X,     *)
(* then invokes onChange(X) once; the textarea holds X when the listener   *)
(* is called.                                                              *)
(***************************************************************************)
C12_SetValueOrder ==
    lastOp.op = "setValue" =>
      /\ dl.trace = <<"write",
                      IF isControlled THEN "setRenderValue" ELSE "setInternalValue",
                      "onChange">>
      /\ dl.dom = lastOp.arg
      /\ dl.calls = <<lastOp.arg>>
      /\ IF isControlled THEN dl.pendingRender = lastOp.arg
                         ELSE dl.pendingInternal = lastOp.arg

\* a controlled setValue of another value than the textarea showed
C12_Witness ==
    /\ isControlled
    /\ lastOp.op = "setValue"
    /\ lastOp.arg = "ab"
    /\ dl.renderValue # "ab"
    /\ dl.dom = "ab"
    /\ dl.trace = <<"write", "setRenderValue", "onChange">>

(***************************************************************************)
(* C13 - External prop update: in controlled mode, once a render has       *)
(* delivered a new value prop (lastOp.arg of that render), a sync pass     *)
(* that runs next finds textarea.value equal to that prop.                 *)
(* The render that delivers a new prop leaves renderValue, and with it     *)
(* textarea.value, as they were; the prop effect then asks for the render  *)
(* that writes the new value, and a frame can come in between.             *)
(***************************************************************************)
C13_PropUpdateBeforeSync ==
    [][/\ isControlled
       /\ lastOp.op = "render" /\ lastOp.arg # Undefined
       /\ lastOp'.op = "frame" /\ lastFrame'.mounted /\ lastFrame'.ran # <<>>
       => dl'.dom = lastOp.arg]_vars

(***************************************************************************)
(* GeoSpec: the textarea's box and the overlay's box.                      *)
(*                                                                         *)
(* Lengths are counted in half pixels, so that a border of 0.5px is told   *)
(* from one of 1px; offsetWidth and clientWidth are whole pixels, which is *)
(* what the DOM returns, and a scrollbar gutter is whole pixels wide.      *)
(* An element is                                                           *)
(*   attached       FALSE when the ref holds null                          *)
(*   width          the width of the border box                            *)
(*   gutter         the width of the vertical scrollbar, 0 without one     *)
(*   style          the computed style (for the overlay: the inline style  *)
(*                  the style pass writes over the defaults of styles.ts)  *)
(*   scrollTop, scrollLeft                                                 *)
(*   scrollTopMax   scrollHeight - clientHeight: how far the content can   *)
(*                  be scrolled                                            *)
(***************************************************************************)
MaxWidth == 21
MaxBorder == 2
MaxPadding == 1
MaxGutter == 1

Widths == (MaxWidth - 1)..MaxWidth
Borders == 0..MaxBorder
Paddings == 0..MaxPadding
Gutters == { 2 * g : g \in 0..MaxGutter }
ScrollOffsets == 0..MaxScroll
Directions == {"ltr", "rtl"}

\* a CSS length as the style object holds it, `${n}px`
px(n) == <<n, "px">>
\* parseFloat(s) || 0
parseFloatOr0(s) == IF Len(s) = 2 /\ s[2] = "px" THEN s[1] ELSE 0

\* the DOM: a layout length as a whole number of pixels
roundPx(h) == 2 * ((h + 1) \div 2)
offsetWidth(el) == roundPx(el.width)
clientWidth(el) ==
    roundPx(Max2(0, el.width - parseFloatOr0(el.style.borderLeftWidth)
                             - parseFloatOr0(el.style.borderRightWidth) - el.gutter))
\* the DOM: an assignment to scrollTop or scrollLeft is clamped to the range
\* the content can be scrolled
setScrollTop(el, v) == [el EXCEPT !.scrollTop = Min2(Max2(v, 0), el.scrollTopMax)]
setScrollLeft(el, v) == [el EXCEPT !.scrollLeft = Min2(Max2(v, 0), MaxScroll)]

syncScrollPositions(ta, layer) ==
    IF ~ta.attached \/ ~layer.attached THEN layer
    ELSE setScrollLeft(setScrollTop(layer, ta.scrollTop), ta.scrollLeft)

syncHighlightStyles_noCompensation(ta, layer) ==
    IF ~ta.attached \/ ~layer.attached THEN layer
    ELSE LET computedStyle == ta.style
         IN  [layer EXCEPT !.style.paddingTop = computedStyle.paddingTop,
                           !.style.paddingBottom = computedStyle.paddingBottom,
                           !.style.paddingLeft = computedStyle.paddingLeft,
                           !.style.paddingRight = computedStyle.paddingRight,
                           !.style.direction = computedStyle.direction,
                           !.style.borderLeftWidth = computedStyle.borderLeftWidth,
                           !.style.borderRightWidth = computedStyle.borderRightWidth]

syncHighlightStyles_leadingEdge(ta, layer) ==
    IF ~ta.attached \/ ~layer.attached THEN layer
    ELSE LET computedStyle == ta.style
             copied == [layer EXCEPT !.style.paddingTop = computedStyle.paddingTop,
                                     !.style.paddingBottom = computedStyle.paddingBottom,
                                     !.style.paddingLeft = computedStyle.paddingLeft,
                                     !.style.paddingRight = computedStyle.paddingRight,
                                     !.style.direction = computedStyle.direction,
                                     !.style.borderLeftWidth = computedStyle.borderLeftWidth,
                                     !.style.borderRightWidth = computedStyle.borderRightWidth]
             borderLeft == parseFloatOr0(computedStyle.borderLeftWidth)
             borderRight == parseFloatOr0(computedStyle.borderRightWidth)
             scrollbarWidth == offsetWidth(ta) - clientWidth(ta) - borderLeft - borderRight
         IN  IF scrollbarWidth > 0
             THEN IF computedStyle.direction = "ltr"
                  THEN [copied EXCEPT !.style.paddingLeft =
                            px(parseFloatOr0(computedStyle.paddingLeft) + scrollbarWidth)]
                  ELSE [copied EXCEPT !.style.paddingRight =
                            px(parseFloatOr0(computedStyle.paddingRight) + scrollbarWidth)]
             ELSE copied

syncHighlightStyles_keepsPadding(ta, layer) ==
    IF ~ta.attached \/ ~layer.attached THEN layer
    ELSE LET computedStyle == ta.style
             copied == [layer EXCEPT !.style.direction = computedStyle.direction,
                                     !.style.borderLeftWidth = computedStyle.borderLeftWidth,
                                     !.style.borderRightWidth = computedStyle.borderRightWidth]
             borderLeft == parseFloatOr0(computedStyle.borderLeftWidth)
             borderRight == parseFloatOr0(computedStyle.borderRightWidth)
             scrollbarWidth == offsetWidth(ta) - clientWidth(ta) - borderLeft - borderRight
         IN  IF scrollbarWidth > 0
             THEN IF computedStyle.direction = "rtl"
                  THEN [copied EXCEPT !.style.paddingLeft =
                            px(parseFloatOr0(computedStyle.paddingLeft) + scrollbarWidth)]
                  ELSE [copied EXCEPT !.style.paddingRight =
                            px(parseFloatOr0(computedStyle.paddingRight) + scrollbarWidth)]
             ELSE copied

syncHighlightStyles(ta, layer) ==
    IF ~ta.attached \/ ~layer.attached THEN layer
    ELSE LET computedStyle == ta.style
             copied == [layer EXCEPT !.style.paddingTop = computedStyle.paddingTop,
                                     !.style.paddingBottom = computedStyle.paddingBottom,
                                     !.style.paddingLeft = computedStyle.paddingLeft,
                                     !.style.paddingRight = computedStyle.paddingRight,
                                     !.style.direction = computedStyle.direction,
                                     !.style.borderLeftWidth = computedStyle.borderLeftWidth,
                                     !.style.borderRightWidth = computedStyle.borderRightWidth]
             borderLeft == parseFloatOr0(computedStyle.borderLeftWidth)
             borderRight == parseFloatOr0(computedStyle.borderRightWidth)
             scrollbarWidth == offsetWidth(ta) - clientWidth(ta) - borderLeft - borderRight
         IN  IF scrollbarWidth > 0
             THEN IF computedStyle.direction = "rtl"
                  THEN [copied EXCEPT !.style.paddingLeft =
                            px(parseFloatOr0(computedStyle.paddingLeft) + scrollbarWidth)]
                  ELSE [copied EXCEPT !.style.paddingRight =
                            px(parseFloatOr0(computedStyle.paddingRight) + scrollbarWidth)]
             ELSE copied

\* the textarea as the page lays it out
Textareas ==
    { [attached |-> TRUE, width |-> w, gutter |-> g,
       style |-> [paddingTop |-> px(MaxPadding), paddingBottom |-> px(MaxPadding),
                  paddingLeft |-> px(pl), paddingRight |-> px(pr), direction |-> d,
                  borderLeftWidth |-> px(bl), borderRightWidth |-> px(br)],
       scrollTop |-> 0, scrollLeft |-> 0, scrollTopMax |-> MaxScroll] :
      w \in Widths, g \in Gutters, pl \in Paddings, pr \in Paddings, d \in Directions,
      bl \in Borders, br \in Borders }

\* the overlay as first rendered: border 1px, no padding, overflow hidden
HighlightLayers ==
    { [attached |-> TRUE, width |-> w, gutter |-> 0,
       style |-> [paddingTop |-> px(0), paddingBottom |-> px(0),
                  paddingLeft |-> px(0), paddingRight |-> px(0), direction |-> "ltr",
                  borderLeftWidth |-> px(2), borderRightWidth |-> px(2)],
       scrollTop |-> 0, scrollLeft |-> 0, scrollTopMax |-> m] :
      w \in Widths, m \in ScrollOffsets }

GeoInit ==
    /\ segPhase = "off"
    /\ text = <<>>
    /\ highlights = <<>>
    /\ rendered = <<>>
    /\ NoInstance
    /\ textarea \in Textareas
    /\ highlightLayer \in HighlightLayers
    /\ geoOp = "none"

\* syncHighlightStyles called on its own
SyncStyles ==
    /\ highlightLayer' = syncHighlightStyles(textarea, highlightLayer)
    /\ geoOp' = "syncStyles"
    /\ UNCHANGED <<segVars, dlVars, textarea>>

\* syncScrollPositions called on its own
SyncScroll ==
    /\ highlightLayer' = syncScrollPositions(textarea, highlightLayer)
    /\ geoOp' = "syncScroll"
    /\ UNCHANGED <<segVars, dlVars, textarea>>

\* the callback of syncLayout: the style step, then the scroll step
SyncPass ==
    /\ highlightLayer' = syncScrollPositions(textarea, syncHighlightStyles(textarea, highlightLayer))
    /\ geoOp' = "syncPass"
    /\ UNCHANGED <<segVars, dlVars, textarea>>

\* the user scrolls the textarea
UserScroll ==
    /\ textarea.attached
    /\ \E top \in ScrollOffsets, left \in ScrollOffsets :
         /\ <<top, left>> # <<textarea.scrollTop, textarea.scrollLeft>>
         /\ textarea' = setScrollLeft(setScrollTop(textarea, top), left)
    /\ geoOp' = "scroll"
    /\ UNCHANGED <<segVars, dlVars, highlightLayer>>

\* the content changes: the textarea gains or loses its scrollbar
ContentChange ==
    /\ textarea.attached
    /\ \E g \in Gutters \ {textarea.gutter} :
         textarea' = [textarea EXCEPT !.gutter = g]
    /\ geoOp' = "content"
    /\ UNCHANGED <<segVars, dlVars, highlightLayer>>

\* React detaches a ref
Detach ==
    /\ \/ /\ textarea.attached
          /\ textarea' = [textarea EXCEPT !.attached = FALSE]
          /\ UNCHANGED highlightLayer
       \/ /\ highlightLayer.attached
          /\ highlightLayer' = [highlightLayer EXCEPT !.attached = FALSE]
          /\ UNCHANGED textarea
    /\ geoOp' = "detach"
    /\ UNCHANGED <<segVars, dlVars>>

GeoNext ==
    \/ SyncStyles
    \/ SyncScroll
    \/ SyncPass
    \/ UserScroll
    \/ ContentChange
    \/ Detach

GeoSpec == GeoInit /\ [][GeoNext]_vars

(***************************************************************************)
(* Reading the boxes.                                                      *)
(***************************************************************************)
\* offsetWidth - clientWidth - borderLeftWidth - borderRightWidth
scrollbarWidthOf(el) ==
    offsetWidth(el) - clientWidth(el) - parseFloatOr0(el.style.borderLeftWidth)
                                      - parseFloatOr0(el.style.borderRightWidth)
\* client width minus left and right padding
contentWidthOf(el) ==
    clientWidth(el) - parseFloatOr0(el.style.paddingLeft) - parseFloatOr0(el.style.paddingRight)
bothAttached == textarea.attached /\ highlightLayer.attached

(***************************************************************************)
(* C14 - Scrollbar compensation: after the style step, with scrollbarWidth *)
(* = offsetWidth - clientWidth - borderLeftWidth - borderRightWidth of the *)
(* textarea: when it is positive the overlay's padding on one side is the  *)
(* textarea's plus scrollbarWidth, the right side for ltr and the left     *)
(* side for rtl, and the other side's padding is the textarea's own; when  *)
(* it is zero or negative both paddings are the textarea's.                *)
(***************************************************************************)
C14_ScrollbarCompensation ==
    geoOp \in {"syncStyles", "syncPass"} /\ bothAttached =>
      LET w == scrollbarWidthOf(textarea)
          own == textarea.style
          layerStyle == highlightLayer.style
      IN  /\ w > 0 /\ own.direction = "ltr" =>
                /\ layerStyle.paddingRight = px(parseFloatOr0(own.paddingRight) + w)
                /\ layerStyle.paddingLeft = own.paddingLeft
          /\ w > 0 /\ own.direction = "rtl" =>
                /\ layerStyle.paddingLeft = px(parseFloatOr0(own.paddingLeft) + w)
                /\ layerStyle.paddingRight = own.paddingRight
          /\ w <= 0 =>
                /\ layerStyle.paddingLeft = own.paddingLeft
                /\ layerStyle.paddingRight = own.paddingRight

\* an rtl textarea with a scrollbar and unequal paddings, after the step
C14_Witness ==
    /\ geoOp = "syncStyles"
    /\ bothAttached
    /\ textarea.style.direction = "rtl"
    /\ scrollbarWidthOf(textarea) > 0
    /\ textarea.style.paddingLeft = px(0)
    /\ textarea.style.paddingRight = px(MaxPadding)
    /\ highlightLayer.style.paddingLeft = px(scrollbarWidthOf(textarea))
    /\ highlightLayer.style.paddingRight = px(MaxPadding)

wholePx(h) == h % 2 = 0
covered(h) ==
    { p \in 0..(Len(text) - 1) : text[p + 1] # NL /\ h.start <= p /\ p < h.end }
\* the offsets of the characters the styled segments of a class show
shownByClass(className) ==
    UNION { { offsetOfLetter(sp.text[j]) : j \in 1..Len(sp.text) } :
            sp \in UNION { { spansOfClass(rendered[i], className)[n] :
                             n \in 1..Len(spansOfClass(rendered[i], className)) } :
                           i \in 1..Len(rendered) } }
segmentsOfClass(className) ==
    { i \in 1..Len(rendered) : spansOfClass(rendered[i], className) # <<>> }

C16_RangeClamping ==
    segPhase \in {"content", "line"} =>
      /\ Len(rendered) = Cardinality(lineBreaks(text)) + 1
      /\ \A k \in 1..Len(highlights) :
            /\ shownByClass(highlights[k].className) \subseteq covered(highlights[k])
            /\ covered(highlights[k]) = {} => segmentsOfClass(highlights[k].className) = {}
      /\ UNION { shownByClass(highlights[k].className) : k \in 1..Len(highlights) }
           = UNION { covered(highlights[k]) : k \in 1..Len(highlights) }

\* "a" and a line break: a range from -1 to past the end is cut to the "a",
\* a range over the line break alone shows nothing
C16_Witness ==
    /\ segPhase = "content"
    /\ text = <<"a", NL>>
    /\ Len(highlights) = 2
    /\ highlights[1].start = 0 - 1 /\ highlights[1].end = MaxLen + 1
    /\ highlights[2].start = 1 /\ highlights[2].end = 2
    /\ shownByClass(highlights[1].className) = {0}
    /\ segmentsOfClass(highlights[1].className) = {1}
    /\ segmentsOfClass(highlights[2].className) = {}

(***************************************************************************)
(* HandleSpec: the imperative handle of one instance.                      *)
(*                                                                         *)
(* The instance is the one of Spec, mounted with "ab"; no render happens   *)
(* here.  The overlay shows rendered = computeHighlightedContent(text,     *)
(* highlights), one line <div> below the other, LineHeight pixels each.    *)
(* In this specification                                                   *)
(* textarea is what the DOM methods of the handle work on:                 *)
(*   focused                       document.activeElement is the textarea  *)
(*   selectionStart, selectionEnd                                          *)
(*   scrollTop, scrollTopMax       as in GeoSpec, in pixels                *)
(*   scrollTarget                  where a smooth scroll under way ends    *)
(* The owner can keep the handle and call it after the unmount, when both  *)
(* refs hold null.  The values of the instance stay the opaque strings of  *)
(* Spec; text has the length of the value the instance was mounted with.   *)
(***************************************************************************)
LineHeight == 48
DefaultOffset == 40

HandleTexts == { t \in Texts : Len(t) = MaxLen /\ t[MaxLen] # NL }
HandleHighlights == {<<>>} \cup { declare(<<>>, r) : r \in { q \in Ranges : q.end = MaxLen } }
ScrollMargins == {0, DefaultOffset}
ScrollBehaviors == {"auto", "smooth"}
NoTarget == 0 - 1

\* textarea.value.length
lengthOf(v) == CASE v = "" -> 0 [] v = "a" -> 1 [] v = "ab" -> 2

\* span.offsetTop of a span in the line <div> at lineIndex
offsetTopOf(lineIndex) == lineIndex * LineHeight

\* highlightLayer.querySelector('[data-range-start="pos"]'): the line of the
\* first span in document order that carries the attribute value, -1 for null
querySelectorLine(content, pos) ==
    LET matching == { i \in 1..Len(content) :
                        \E n \in 1..Len(spansOf(content[i])) :
                            spansOf(content[i])[n].rangeStart = pos }
    IN  IF matching = {} THEN 0 - 1
        ELSE (CHOOSE i \in matching : \A j \in matching : i <= j) - 1

\* the DOM: textarea.scrollTo({behavior: 'smooth', top}) starts an animation
scrollToSmooth(el, top) ==
    [el EXCEPT !.scrollTarget = Min2(Max2(top, 0), el.scrollTopMax)]

scrollToPosition(c, el, content, pos, offset, behavior) ==
    IF ~(c.highlightLayer /\ c.textarea) THEN el
    ELSE LET line == querySelectorLine(content, pos)
         IN  IF line < 0 THEN el
             ELSE IF behavior = "smooth" THEN scrollToSmooth(el, offsetTopOf(line) - offset)
                  ELSE setScrollTop(el, offsetTopOf(line) - offset)

\* the DOM: HTMLTextAreaElement.setSelectionRange
setSelectionRange(el, start, end, length) ==
    LET e == Min2(end, length)
        st == Min2(Min2(start, length), e)
    IN  [el EXCEPT !.selectionStart = st, !.selectionEnd = e]

HandleInit ==
    /\ segPhase = "handle"
    /\ text \in HandleTexts
    /\ highlights \in HandleHighlights
    /\ rendered = computeHighlightedContent(text, highlights, <<>>)
    /\ mounted = TRUE
    /\ isControlled \in BOOLEAN
    /\ dl = syncLayout(syncLayout(InitInstance("ab")))
    /\ widget = [style |-> "ltr", scroll |-> 0]
    /\ overlay = [style |-> "none", scroll |-> 0]
    /\ lastOp = NoOp
    /\ got = Undefined
    /\ lastFrame = NoFrameYet
    /\ telemetry = <<>>
    /\ textarea = [focused |-> FALSE, selectionStart |-> 0, selectionEnd |-> 0,
                   scrollTop |-> 0, scrollTopMax |-> LineHeight, scrollTarget |-> NoTarget]
    /\ highlightLayer = <<>>
    /\ geoOp = <<>>

\* ref.focus()
Focus ==
    /\ textarea' = IF dl.textarea THEN [textarea EXCEPT !.focused = TRUE] ELSE textarea
    /\ lastOp' = [op |-> "focus", arg |-> Undefined]
    /\ dl' = fresh(dl)
    /\ got' = Undefined
    /\ lastFrame' = NoFrameYet
    /\ UNCHANGED <<segVars, mounted, isControlled, widget, overlay, highlightLayer, geoOp, telemetry>>

\* ref.blur()
Blur ==
    /\ textarea' = IF dl.textarea THEN [textarea EXCEPT !.focused = FALSE] ELSE textarea
    /\ lastOp' = [op |-> "blur", arg |-> Undefined]
    /\ dl' = fresh(dl)
    /\ got' = Undefined
    /\ lastFrame' = NoFrameYet
    /\ UNCHANGED <<segVars, mounted, isControlled, widget, overlay, highlightLayer, geoOp, telemetry>>

\* ref.select()
Select ==
    /\ textarea' = IF dl.textarea
                   THEN setSelectionRange(textarea, 0, lengthOf(dl.dom), lengthOf(dl.dom))
                   ELSE textarea
    /\ lastOp' = [op |-> "select", arg |-> Undefined]
    /\ dl' = fresh(dl)
    /\ got' = Undefined
    /\ lastFrame' = NoFrameYet
    /\ UNCHANGED <<segVars, mounted, isControlled, widget, overlay, highlightLayer, geoOp, telemetry>>

\* ref.setSelectionRange(start, end)
SetSelectionRange ==
    /\ \E start \in {0, MaxLen}, end \in {0, MaxLen} :
         /\ textarea' = IF dl.textarea
                        THEN setSelectionRange(textarea, start, end, lengthOf(dl.dom))
                        ELSE textarea
         /\ lastOp' = [op |-> "setSelectionRange", arg |-> Undefined]
    /\ dl' = fresh(dl)
    /\ got' = Undefined
    /\ lastFrame' = NoFrameYet
    /\ UNCHANGED <<segVars, mounted, isControlled, widget, overlay, highlightLayer, geoOp, telemetry>>

\* ref.scrollToPosition(pos, offset, behavior)
ScrollToPosition ==
    /\ \E pos \in Offsets, offset \in ScrollMargins, behavior \in ScrollBehaviors :
         /\ textarea' = scrollToPosition(dl, textarea, rendered, pos, offset, behavior)
         /\ lastOp' = [op |-> "scrollToPosition",
                       arg |-> [pos |-> pos, offset |-> offset, behavior |-> behavior]]
    /\ dl' = fresh(dl)
    /\ got' = Undefined
    /\ lastFrame' = NoFrameYet
    /\ UNCHANGED <<segVars, mounted, isControlled, widget, overlay, highlightLayer, geoOp, telemetry>>

\* the browser: a smooth scroll arrives
SmoothScrollEnd ==
    /\ textarea.scrollTarget # NoTarget
    /\ textarea' = [textarea EXCEPT !.scrollTop = textarea.scrollTarget, !.scrollTarget = NoTarget]
    /\ lastOp' = [op |-> "smoothScrollEnd", arg |-> Undefined]
    /\ dl' = fresh(dl)
    /\ got' = Undefined
    /\ lastFrame' = NoFrameYet
    /\ UNCHANGED <<segVars, mounted, isControlled, widget, overlay, highlightLayer, geoOp, telemetry>>

\* ref.setValue(newValue) on a handle kept beyond the unmount
StaleSetValue ==
    /\ ~mounted
    /\ \E newValue \in Values :
         LET set == applySetValue(fresh(dl), newValue, NoAnswer)
         IN  /\ canRequestFrame(set)
             /\ dl' = syncLayout(set)
             /\ lastOp' = [op |-> "setValue", arg |-> newValue]
    /\ got' = Undefined
    /\ lastFrame' = NoFrameYet
    /\ UNCHANGED <<segVars, geoVars, mounted, isControlled, widget, overlay, telemetry>>

HandleNext ==
    \/ Focus
    \/ Blur
    \/ Select
    \/ SetSelectionRange
    \/ ScrollToPosition
    \/ SmoothScrollEnd
    \/ StaleSetValue
    \/ Frame
    \/ Unmount

HandleSpec == HandleInit /\ [][HandleNext]_vars

(***************************************************************************)
(* C17 - Missing surface: with the textarea ref empty, setValue leaves     *)
(* internalValue, renderValue (committed and pending) and textarea.value   *)
(* as they are and does not call onChange; focus, blur, select and         *)
(* setSelectionRange leave the textarea as it is; with the textarea or the *)
(* overlay ref empty, scrollToPosition leaves the textarea as it is and a  *)
(* frame's style and scroll steps write nothing to the overlay.  Each of   *)
(* the operations can be called in that state and returns.                 *)
(***************************************************************************)
missingSurface(c) == ~c.textarea \/ ~c.highlightLayer

linesStartingAt(pos) ==
    { i - 1 : i \in { j \in 1..Len(rendered) :
                        \E n \in 1..Len(spansOf(rendered[j])) :
                            offsetOfLetter(spansOf(rendered[j])[n].text[1]) = pos } }

C20_ScrollToPosition ==
    [][/\ lastOp'.op = "scrollToPosition"
       /\ ~missingSurface(dl)
       /\ lastOp'.arg.behavior = "auto"
       => IF linesStartingAt(lastOp'.arg.pos) # {}
          THEN \E line \in linesStartingAt(lastOp'.arg.pos) :
                  textarea'.scrollTop =
                     Min2(Max2(offsetTopOf(line) - lastOp'.arg.offset, 0), textarea.scrollTopMax)
          ELSE textarea'.scrollTop = textarea.scrollTop]_vars

(***************************************************************************)
(* C18 - Line index: getLinePositions returns one line per piece between   *)
(* line breaks (one empty line for the empty text, a trailing empty line   *)
(* for a text that ends in a line break) and as many line starts;          *)
(* lineStarts[0] = 0, lineStarts[i+1] = lineStarts[i] + length(lines[i])   *)
(* + 1, so the starts increase strictly, and the slice of the text from    *)
(* lineStarts[i] over length(lines[i]) characters is lines[i].             *)
(***************************************************************************)
C18_LineIndex ==
    segPhase = "positions" =>
      LET lines == rendered.lines
          lineStarts == rendered.lineStarts
      IN  /\ Len(lines) = Cardinality(lineBreaks(text)) + 1
          /\ Len(lineStarts) = Len(lines)
          /\ text = <<>> => lines = << <<>> >>
          /\ text # <<>> /\ text[Len(text)] = NL => lines[Len(lines)] = <<>>
          /\ \A i \in 1..Len(lines) : \A j \in 1..Len(lines[i]) : lines[i][j] # NL
          /\ lineStarts[1] = 0
          /\ \A i \in 1..(Len(lines) - 1) :
                /\ lineStarts[i + 1] = lineStarts[i] + Len(lines[i]) + 1
                /\ lineStarts[i + 1] > lineStarts[i]
          /\ \A i \in 1..Len(lines) :
                slice(text, lineStarts[i], lineStarts[i] + Len(lines[i])) = lines[i]

\* a text that ends in a line break
C18_Witness ==
    /\ segPhase = "positions"
    /\ text = <<"a", NL>>
    /\ rendered.lines = << <<"a">>, <<>> >>
    /\ rendered.lineStarts = <<0, 2>>

(***************************************************************************)
(* C19 - Offset resolution clamping: absoluteToLinePos maps an offset      *)
(* before the first line to line 0, char 0, and an offset past the end of  *)
(* the text to the last line with char equal to that line's length.        *)
(* The code subtracts the line start and does not know the line's length.  *)
(***************************************************************************)
C19_OffsetClamped ==
    segPhase = "resolved" /\ rendered.lineStarts # <<>> =>
      LET lp == getLinePositions(text)
          last == Len(lp.lines)
      IN  /\ rendered.absolutePos < 0 => rendered.pos = [char |-> 0, line |-> 0]
          /\ rendered.absolutePos > Len(text) =>
                rendered.pos = [char |-> Len(lp.lines[last]), line |-> last - 1]

\* The same with what the code returns: the line is the last one that starts
\* at or before the offset and char is the distance from that line's start,
\* which for an offset past the end of the text is more than the length of
\* the last line; an offset before the first line, or any offset with no
\* line starts at all, gives line 0, char 0.
C19_OffsetResolution ==
    segPhase = "resolved" =>
      LET lp == getLinePositions(text)
          last == Len(lp.lines)
          at == rendered.pos
          absolutePos == rendered.absolutePos
      IN  /\ rendered.lineStarts = <<>> \/ absolutePos < 0 => at = [char |-> 0, line |-> 0]
          /\ rendered.lineStarts # <<>> /\ absolutePos >= 0 =>
                /\ at.line \in 0..(last - 1)
                /\ lp.lineStarts[at.line + 1] <= absolutePos
                /\ at.line + 1 < last => absolutePos < lp.lineStarts[at.line + 2]
                /\ at.char = absolutePos - lp.lineStarts[at.line + 1]
                /\ absolutePos <= Len(text) => at.char <= Len(lp.lines[at.line + 1])
                /\ absolutePos > Len(text) =>
                      /\ at.line = last - 1
                      /\ at.char > Len(lp.lines[last])

\* offset 3 in "a" and a line break: the empty last line starts at 2
C19_Witness ==
    /\ segPhase = "resolved"
    /\ text = <<"a", NL>>
    /\ rendered.lineStarts = <<0, 2>>
    /\ rendered.absolutePos = MaxLen + 1
    /\ rendered.pos = [char |-> 1, line |-> 1]

(***************************************************************************)
(* Auto-resize.  ResizeSpec looks at the height of the textarea alone:     *)
(* textarea is the element (content height, vertical borders, the inline   *)
(* style.height), dl holds the enableAutoResize prop, the textareaHeight   *)
(* state cell of useAutoResize with its pending update, and the height     *)
(* the last render put in the style prop.  Lengths are in half pixels.     *)
(* geoOp records the last step: what ran the handler, the element and the  *)
(* pending height it found.                                                *)
(***************************************************************************)
MaxContentLines == 5
MaxBorderHeight == 3
Rows == 4

ContentHeights == { l * LineHeight : l \in 1..MaxContentLines }
BorderHeights == 0..MaxBorderHeight
BorderThreshold == 4

\* style.height while it holds no length, and a state cell holding undefined
AutoHeight == <<0, "auto">>
UnsetHeight == <<0, "">>
NoHeight == 0 - 1

\* the DOM: clientHeight of a border-box textarea; with no height of its own
\* the element is as tall as its rows
clientHeight(el) ==
    IF el.style.height \in {UnsetHeight, AutoHeight}
    THEN Rows * LineHeight
    ELSE roundPx(Max2(0, parseFloatOr0(el.style.height)
                         - parseFloatOr0(el.borderTopWidth)
                         - parseFloatOr0(el.borderBottomWidth)))

\* the DOM: scrollHeight is the taller of the content and the client box
scrollHeight(el) == Max2(el.contentHeight, clientHeight(el))

autoResize_alwaysBorders(textArea) ==
    LET borderTop == parseFloatOr0(textArea.borderTopWidth)
        borderBottom == parseFloatOr0(textArea.borderBottomWidth)
        auto == [textArea EXCEPT !.style.height = AutoHeight]
    IN  [auto EXCEPT !.style.height = px(scrollHeight(auto) + borderTop + borderBottom)]

autoResize(textArea) ==
    LET borderTop == parseFloatOr0(textArea.borderTopWidth)
        borderBottom == parseFloatOr0(textArea.borderBottomWidth)
        auto == [textArea EXCEPT !.style.height = AutoHeight]
        totalBorderHeight == borderTop + borderBottom
        finalHeight == IF totalBorderHeight > BorderThreshold
                       THEN scrollHeight(auto) + totalBorderHeight
                       ELSE scrollHeight(auto)
    IN  [auto EXCEPT !.style.height = px(finalHeight)]

\* the state setter of the textareaHeight cell
setTextareaHeight(c, height) == [c EXCEPT !.pendingHeight = height]

\* handleAutoResize(element): the instance and the element afterwards
handleAutoResize(c, element) ==
    IF ~c.enableAutoResize
    THEN [c |-> c, element |-> element]
    ELSE LET resized == autoResize(element)
         IN  [c |-> setTextareaHeight(c, scrollHeight(resized)), element |-> resized]

\* height: textareaHeight ? `${textareaHeight}px` : undefined
heightProp(textareaHeight) ==
    IF textareaHeight = NoHeight \/ textareaHeight = 0 THEN UnsetHeight ELSE px(textareaHeight)

ResizeTextareas ==
    { [contentHeight |-> h, borderTopWidth |-> px(bt), borderBottomWidth |-> px(bb),
       style |-> [height |-> UnsetHeight]] :
      h \in ContentHeights, bt \in BorderHeights, bb \in BorderHeights }

ResizeInit ==
    /\ segPhase = "off"
    /\ text = <<>>
    /\ highlights = <<>>
    /\ rendered = <<>>
    /\ mounted = TRUE
    /\ isControlled = FALSE
    /\ \E e \in BOOLEAN :
          dl = [enableAutoResize |-> e, textareaHeight |-> NoHeight,
                pendingHeight |-> NoHeight, heightProp |-> UnsetHeight]
    /\ widget = <<>>
    /\ overlay = <<>>
    /\ lastOp = <<>>
    /\ got = Undefined
    /\ lastFrame = <<>>
    /\ telemetry = <<>>
    /\ textarea \in ResizeTextareas
    /\ highlightLayer = <<>>
    /\ geoOp = [op |-> "none"]

\* what a step that runs the handler leaves behind
resizeStep(op, element) ==
    LET after == handleAutoResize(dl, element)
    IN  /\ dl' = after.c
        /\ textarea' = after.element
        /\ geoOp' = [op |-> op, enabled |-> dl.enableAutoResize, element |-> element,
                     pendingHeight |-> dl.pendingHeight]

\* the text changes and with it the height of the content: the layout effect
\* of currentValue runs the handler
ValueChange ==
    /\ \E h \in ContentHeights \ {textarea.contentHeight} :
          resizeStep("valueChange", [textarea EXCEPT !.contentHeight = h])
    /\ UNCHANGED <<segVars, mounted, isControlled, widget, overlay, lastOp, got, lastFrame,
                   highlightLayer, telemetry>>

\* the ResizeObserver reports a new size of the textarea, after which the
\* text may wrap differently
WidgetResize ==
    /\ \E h \in ContentHeights : resizeStep("resize", [textarea EXCEPT !.contentHeight = h])
    /\ UNCHANGED <<segVars, mounted, isControlled, widget, overlay, lastOp, got, lastFrame,
                   highlightLayer, telemetry>>

\* the setValue of the handle runs the handler on the element as it stands
SetValueResize ==
    /\ resizeStep("setValue", textarea)
    /\ UNCHANGED <<segVars, mounted, isControlled, widget, overlay, lastOp, got, lastFrame,
                   highlightLayer, telemetry>>

\* the owner passes another enableAutoResize: the layout effects run again
\* with the new handler
SetEnableAutoResize ==
    /\ \E e \in BOOLEAN \ {dl.enableAutoResize} :
          LET after == handleAutoResize([dl EXCEPT !.enableAutoResize = e], textarea)
          IN  /\ dl' = after.c
              /\ textarea' = after.element
              /\ geoOp' = [op |-> "enable", enabled |-> e, element |-> textarea,
                           pendingHeight |-> dl.pendingHeight]
    /\ UNCHANGED <<segVars, mounted, isControlled, widget, overlay, lastOp, got, lastFrame,
                   highlightLayer, telemetry>>

\* React renders with the new textareaHeight and writes the style
\* properties whose value is not the one of the previous render
RenderHeight ==
    /\ dl.pendingHeight # dl.textareaHeight
    /\ LET next == heightProp(dl.pendingHeight)
       IN  /\ dl' = [dl EXCEPT !.textareaHeight = dl.pendingHeight, !.heightProp = next]
           /\ textarea' = IF next # dl.heightProp
                          THEN [textarea EXCEPT !.style.height = next]
                          ELSE textarea
    /\ geoOp' = [op |-> "render"]
    /\ UNCHANGED <<segVars, mounted, isControlled, widget, overlay, lastOp, got, lastFrame,
                   highlightLayer, telemetry>>

ResizeNext ==
    \/ ValueChange
    \/ WidgetResize
    \/ SetValueResize
    \/ SetEnableAutoResize
    \/ RenderHeight

ResizeSpec == ResizeInit /\ [][ResizeNext]_vars

\* the steps that run the resize handler
ranHandler == geoOp.op \in {"valueChange", "resize", "setValue", "enable"}

\* C21: a change of the text and a change of the widget's size each run the
\* resize handler.  With enableAutoResize the handler leaves the widget with
\* the height of its content, which is its scrollHeight under height auto,
\* plus the two vertical borders only when together they are more than 2px,
\* and hands the scrollHeight of the widget to the textareaHeight state;
\* without enableAutoResize it leaves the height of the widget and the
\* textareaHeight state as they were.
C21_AutoResize ==
    ranHandler =>
      LET before == geoOp.element
          borders == before.borderTopWidth[1] + before.borderBottomWidth[1]
          content == Max2(before.contentHeight, Rows * LineHeight)
          height == IF borders > BorderThreshold THEN content + borders ELSE content
      IN  IF geoOp.enabled
          THEN /\ textarea.style.height = px(height)
               /\ dl.pendingHeight = Max2(before.contentHeight, roundPx(height - borders))
               /\ textarea.contentHeight = before.contentHeight
          ELSE /\ textarea.style.height = before.style.height
               /\ dl.pendingHeight = geoOp.pendingHeight

\* more text than the rows hold in a widget with borders of 1px and 1.5px:
\* the height is the content and the borders, the state the content
C21_Witness ==
    /\ geoOp.op = "valueChange"
    /\ geoOp.enabled
    /\ textarea.contentHeight = MaxContentLines * LineHeight
    /\ textarea.borderTopWidth = px(2)
    /\ textarea.borderBottomWidth = px(3)
    /\ textarea.style.height = px(MaxContentLines * LineHeight + 5)
    /\ dl.pendingHeight = MaxContentLines * LineHeight

\* HighlightBuilder.lines: className || color || ''
tagOf_colorFirst(className, color) ==
    IF color # Undefined /\ color # "" THEN color
    ELSE IF className # Undefined /\ className # "" THEN className
    ELSE ""

tagOf(className, color) ==
    IF className # Undefined /\ className # "" THEN className
    ELSE IF color # Undefined /\ color # "" THEN color
    ELSE ""

\* result[line] = tag
setLine(result, line, tag) ==
    [k \in DOMAIN result \cup {line} |-> IF k = line THEN tag ELSE result[k]]

RECURSIVE forEachLine(_, _)
forEachLine(result, lines) ==
    IF lines = <<>> THEN result
    ELSE forEachLine(setLine(result, Head(lines).line,
                             tagOf(Head(lines).className, Head(lines).color)),
                     Tail(lines))

HighlightBuilder_lines(lines) == forEachLine(<<>>, lines)

\* the entries an owner hands to HighlightBuilder.lines
MaxBuilderLines == 2
BuilderEntries ==
    [className : {Undefined, "", "line-class"}, color : {Undefined, "", "red"},
     line : 0..MaxLen]
BuilderLines ==
    UNION { [1..n -> BuilderEntries] : n \in 0..MaxBuilderLines }

(***************************************************************************)
(* Line highlights.  LineSpec renders a text with a lineHighlights object   *)
(* of one entry and then with one range as well; rendered holds the object *)
(* next to the line elements it produced.                                  *)
(***************************************************************************)
LineInit ==
    /\ segPhase = "content"
    /\ text \in Texts
    /\ highlights = <<>>
    /\ rendered = computeHighlightedContent(text, highlights, <<>>)
    /\ NoInstance
    /\ NoGeometry

\* the owner passes lineHighlights with one entry, which may name a line the
\* text does not have or hold the empty string
HighlightLine ==
    /\ segPhase = "content"
    /\ \E lineIndex \in 0..MaxLen + 1, tag \in LineTags \cup {NoLineHighlight} :
          LET lineHighlights == IF tag = NoLineHighlight /\ lineIndex > MaxLen
                                THEN <<>>
                                ELSE lineIndex :> tag
          IN  rendered' = [lineHighlights |-> lineHighlights,
                           content |-> computeHighlightedContent(text, highlights,
                                                                 lineHighlights)]
    /\ segPhase' = "lineHighlight"
    /\ UNCHANGED <<text, highlights, dlVars, geoVars>>

\* the owner passes highlights with a single range
DeclareRange ==
    /\ segPhase = "lineHighlight"
    /\ highlights = <<>>
    /\ \E r \in Ranges :
          /\ highlights' = declare(<<>>, r)
          /\ rendered' = [rendered EXCEPT !.content =
                             computeHighlightedContent(text, highlights',
                                                       rendered.lineHighlights)]
    /\ UNCHANGED <<segPhase, text, dlVars, geoVars>>

\* the owner builds lineHighlights with HighlightBuilder.lines and passes it
BuildLines ==
    /\ segPhase = "content"
    /\ \E lines \in BuilderLines :
          LET lineHighlights == HighlightBuilder_lines(lines)
          IN  rendered' = [lines |-> lines, lineHighlights |-> lineHighlights,
                           content |-> computeHighlightedContent(text, highlights,
                                                                 lineHighlights)]
    /\ segPhase' = "built"
    /\ UNCHANGED <<text, highlights, dlVars, geoVars>>

LineNext ==
    \/ HighlightLine
    \/ DeclareRange
    \/ BuildLines

LineSpec == LineInit /\ [][LineNext]_vars

\* C22: a line whose entry in lineHighlights is a non-empty tag gets a
\* container with either className = tag, when isColorValue does not take
\* the tag for a colour, or backgroundColor = tag, when it does, and never
\* both; a line without a tag gets neither.  The children of every line
\* container are the ones the same text and ranges give without any line
\* highlight.
C22_LineHighlight ==
    segPhase = "lineHighlight" =>
      LET plain == computeHighlightedContent(text, highlights, <<>>)
      IN  /\ Len(rendered.content) = Len(plain)
          /\ \A i \in 1..Len(plain) :
                LET el == rendered.content[i]
                    tag == lineHighlightOf(rendered.lineHighlights, i - 1)
                IN  /\ el.children = plain[i].children
                    /\ el.key = plain[i].key
                    /\ tag = "" => el.className = Undefined /\ el.backgroundColor = Undefined
                    /\ tag # "" /\ isColorValue(tag) =>
                          el.className = Undefined /\ el.backgroundColor = tag
                    /\ tag # "" /\ ~isColorValue(tag) =>
                          el.className = tag /\ el.backgroundColor = Undefined

\* the second line of a two-line text carries a segment and the class
\* line-class, which is no colour
C22_Witness ==
    /\ segPhase = "lineHighlight"
    /\ Len(rendered.content) = 2
    /\ rendered.lineHighlights = (1 :> "line-class")
    /\ rendered.content[2].className = "line-class"
    /\ rendered.content[2].backgroundColor = Undefined
    /\ \E j \in 1..Len(rendered.content[2].children) : rendered.content[2].children[j].span
    /\ rendered.content[1].className = Undefined

(***************************************************************************)
(* The telemetry collaborator.  TelemetrySpec looks at one                 *)
(* AIOptimizedTelemetry object: telemetry holds its fields, with the       *)
(* ValueRegistry as the sequence of the values it stored (the id of a      *)
(* value is its place in it), and lastOp the last call and the clock.      *)
(* A value is a string with a length; "L" is a text of more than 1000      *)
(* characters.                                                             *)
(***************************************************************************)
MaxEvents == 2
MaxTime == 3
MaxIssueCount == 2
RegistryThreshold == 1000
PasteThreshold == 100
RapidThreshold == 2

TelemetryValues == {"a", "L"}
valueLength(v) ==
    CASE v = "" -> 0
      [] v = "a" -> 1
      [] OTHER -> RegistryThreshold + 1

EventTypes ==
    { [type |-> "snapshot", category |-> "system"],
      [type |-> "onChange", category |-> "user"],
      [type |-> "valueMismatch", category |-> "state"] }

Null == 0 - 1
RefNames == <<"<REF:value_0>", "<REF:value_1>">>

\* Math.abs
abs(n) == IF n < 0 THEN 0 - n ELSE n

\* ValueRegistry.store: the registry afterwards and the string returned
store(registry, value) ==
    IF valueLength(value) <= RegistryThreshold
    THEN [registry |-> registry, out |-> value]
    ELSE IF \E i \in 1..Len(registry) : registry[i] = value
    THEN [registry |-> registry,
          out |-> RefNames[CHOOSE i \in 1..Len(registry) : registry[i] = value]]
    ELSE [registry |-> Append(registry, value), out |-> RefNames[Len(registry) + 1]]

\* issueRegistry.set(key, (issueRegistry.get(key) ?? 0) + 1)
countIssue(issueRegistry, key) ==
    IF key \in DOMAIN issueRegistry
    THEN [issueRegistry EXCEPT ![key] = @ + 1]
    ELSE issueRegistry @@ (key :> 1)

RECURSIVE countIssues(_, _)
countIssues(issueRegistry, anomalies) ==
    IF anomalies = <<>> THEN issueRegistry
    ELSE countIssues(countIssue(issueRegistry, Head(anomalies)), Tail(anomalies))

\* if (events.length > n) events = events.slice(-n), for n >= 0: -0 is 0,
\* so slice(-0) is slice(0), the whole array
lastEvents(events, n) ==
    IF Len(events) <= n \/ n = 0 THEN events
    ELSE SubSeq(events, Len(events) - n + 1, Len(events))

AIOptimizedTelemetry(enabled, maxEvents) ==
    [enabled |-> enabled, maxEvents |-> maxEvents, events |-> <<>>,
     lastEventTimestamp |-> Null, issueRegistry |-> <<>>, valueRegistry |-> <<>>]

setEnabled(t, enabled) == [t EXCEPT !.enabled = enabled]

record_whileDisabled(t, type, category, textareaValue, currentValue, now) ==
    LET timeSinceLastEvent ==
            IF t.lastEventTimestamp # Null /\ t.lastEventTimestamp # 0
            THEN now - t.lastEventTimestamp ELSE Null
        valuesMatch == textareaValue = currentValue
        stored == store(t.valueRegistry, textareaValue)
        event == [anomalies |-> <<>>, category |-> category, type |-> type,
                  reactValue |-> currentValue, textareaValue |-> stored.out,
                  valuesMatch |-> valuesMatch,
                  timeSinceLastEvent |-> timeSinceLastEvent, timestamp |-> now]
    IN  [t EXCEPT !.events = lastEvents(Append(t.events, event), t.maxEvents),
                  !.lastEventTimestamp = now,
                  !.valueRegistry = stored.registry]

record(t, type, category, textareaValue, currentValue, now) ==
    IF ~t.enabled THEN t
    ELSE LET timeSinceLastEvent ==
                 IF t.lastEventTimestamp # Null /\ t.lastEventTimestamp # 0
                 THEN now - t.lastEventTimestamp ELSE Null
             reactValue == currentValue
             valuesMatch == textareaValue = reactValue
             isOnChangeEvent == category = "user" /\ type = "onChange"
             mismatch == IF ~valuesMatch /\ ~isOnChangeEvent
                         THEN <<"state_mismatch">> ELSE <<>>
             rapid == IF timeSinceLastEvent # Null /\ timeSinceLastEvent < RapidThreshold
                      THEN <<"rapid_events">> ELSE <<>>
             paste == IF /\ isOnChangeEvent
                         /\ abs(valueLength(textareaValue) - valueLength(reactValue))
                               > PasteThreshold
                      THEN <<"large_paste">> ELSE <<>>
             anomalies == mismatch \o rapid \o paste
             storedTextarea == store(t.valueRegistry, textareaValue)
             storedReact == store(storedTextarea.registry, reactValue)
             event == [anomalies |-> anomalies, category |-> category, type |-> type,
                       reactValue |-> storedReact.out, textareaValue |-> storedTextarea.out,
                       valuesMatch |-> valuesMatch,
                       timeSinceLastEvent |-> timeSinceLastEvent, timestamp |-> now]
         IN  [t EXCEPT !.events = lastEvents(Append(t.events, event), t.maxEvents),
                       !.lastEventTimestamp = now,
                       !.issueRegistry = countIssues(t.issueRegistry, anomalies),
                       !.valueRegistry = storedReact.registry]

TelemetryInit ==
    /\ segPhase = "off"
    /\ text = <<>>
    /\ highlights = <<>>
    /\ rendered = <<>>
    /\ mounted = TRUE
    /\ isControlled = FALSE
    /\ dl = <<>>
    /\ widget = <<>>
    /\ overlay = <<>>
    /\ lastOp = [op |-> "new", now |-> 1]
    /\ got = Undefined
    /\ lastFrame = <<>>
    /\ NoGeometry
    /\ \E debug \in BOOLEAN, debugMaxEvents \in 0..MaxEvents :
          telemetry = AIOptimizedTelemetry(debug, debugMaxEvents)

\* some caller records an event at a time the clock has reached
Record ==
    /\ \A key \in DOMAIN telemetry.issueRegistry : telemetry.issueRegistry[key] < MaxIssueCount
    /\ \E e \in EventTypes, textareaValue \in TelemetryValues,
          currentValue \in TelemetryValues, now \in lastOp.now..MaxTime :
          /\ telemetry' = record(telemetry, e.type, e.category, textareaValue, currentValue, now)
          /\ lastOp' = [op |-> "record", now |-> now, type |-> e.type,
                        mismatch |-> textareaValue # currentValue]
    /\ UNCHANGED <<segVars, geoVars, mounted, isControlled, dl, widget, overlay, got, lastFrame>>

\* the effect of the debug prop
SetEnabled ==
    /\ \E debug \in BOOLEAN \ {telemetry.enabled} : telemetry' = setEnabled(telemetry, debug)
    /\ lastOp' = [op |-> "setEnabled", now |-> lastOp.now]
    /\ UNCHANGED <<segVars, geoVars, mounted, isControlled, dl, widget, overlay, got, lastFrame>>

TelemetryNext ==
    \/ Record
    \/ SetEnabled

TelemetrySpec == TelemetryInit /\ [][TelemetryNext]_vars

\* C23: a record() made while the collaborator is disabled leaves the event
\* log, the issue registry, the value registry and the last-event timestamp
\* as they were; a record() made while it is enabled, in particular the
\* first one after setEnabled(true), puts exactly one new event at the end
\* of the log, in front of which stay the latest of the earlier events.
C23_TelemetryOff ==
    [][lastOp'.op = "record" =>
         IF ~telemetry.enabled
         THEN telemetry' = telemetry
         ELSE LET old == telemetry.events
                  new == telemetry'.events
                  kept == Len(new) - 1
              IN  /\ Len(new) >= 1
                  /\ Len(new) <= Len(old) + 1
                  /\ \A i \in 1..kept : new[i] = old[Len(old) - kept + i]
                  /\ new[Len(new)].timestamp = lastOp'.now
                  /\ new[Len(new)].type = lastOp'.type
                  /\ telemetry'.lastEventTimestamp = lastOp'.now]_vars

\* a first event in the log of a collaborator that was constructed disabled
\* and recorded nothing until it was enabled
C23_Witness ==
    /\ lastOp.op = "record"
    /\ telemetry.enabled
    /\ telemetry.maxEvents = MaxEvents
    /\ Len(telemetry.events) = 1
    /\ telemetry.events[1].timestamp = 3
    /\ telemetry.events[1].timeSinceLastEvent = Null
    /\ telemetry.events[1].textareaValue = RefNames[1]
    /\ telemetry.valueRegistry = <<"L">>

\* the place of the last entry of lines that names the line
lastEntryFor(lines, line) ==
    CHOOSE i \in 1..Len(lines) :
        /\ lines[i].line = line
        /\ \A j \in (i + 1)..Len(lines) : lines[j].line # line

\* C24: the result of HighlightBuilder.lines has an entry for exactly the
\* line numbers listed; the entry of a line is the className of the last
\* entry listed for it when that is a non-empty string, else its color when
\* that is a non-empty string, else the empty string.
C24_BuilderLines ==
    segPhase = "built" =>
      LET lines == rendered.lines
          result == rendered.lineHighlights
      IN  /\ DOMAIN result = { lines[i].line : i \in 1..Len(lines) }
          /\ \A line \in DOMAIN result :
                LET e == lines[lastEntryFor(lines, line)]
                IN  result[line] =
                       IF e.className \notin {Undefined, ""} THEN e.className
                       ELSE IF e.color \notin {Undefined, ""} THEN e.color
                       ELSE ""

\* line 1 listed twice, first with a colour only and then with a class and a
\* colour: the class of the later entry is the result, line 0 has no entry
C24_Witness ==
    /\ segPhase = "built"
    /\ rendered.lines = << [className |-> Undefined, color |-> "red", line |-> 1],
                           [className |-> "line-class", color |-> "red", line |-> 1] >>
    /\ DOMAIN rendered.lineHighlights = {1}
    /\ rendered.lineHighlights[1] = "line-class"

\* the child of a rendered line that holds the letter c
childOf(element, c) ==
    LET n == CHOOSE n \in 1..Len(element.children) :
                 \E m \in 1..Len(element.children[n].text) : element.children[n].text[m] = c
    IN  element.children[n]

\* the clipped ranges of a line that cover its local offset q, by their
\* place in declaration order
coveringAt(rs, q) == { k \in 1..Len(rs) : rs[k].start <= q /\ q < rs[k].end }

\* two highlights that on some line are both present with one local start
tiedOnSomeLine(s, h1, h2) ==
    LET lp == getLinePositions(s)
    IN  \E i \in 1..Len(lp.lines) :
           LET c1 == clipToLine(h1, i - 1, lp)
               c2 == clipToLine(h2, i - 1, lp)
           IN  c1 # <<>> /\ c2 # <<>> /\ c1[1].start = c2[1].start

\* the list with the entries at places a and b exchanged
exchanged(hs, a, b) ==
    [k \in 1..Len(hs) |-> IF k = a THEN hs[b] ELSE IF k = b THEN hs[a] ELSE hs[k]]

\* C25: on every line each character covered by some clipped range stands
\* in the <span> of the covering range with the smallest line-local start,
\* and of the first declared among those with that start (a range that
\* continues from an earlier line has local start 0); a character covered
\* by no range stands in plain text.  Exchanging two declared ranges changes
\* nothing in the output unless the exchange reverses two ranges that have
\* the same local start on some line.
C25_TieBreak ==
    segPhase = "content" =>
      /\ \A i \in 1..Len(rendered) :
            LET line == lineArgOf(i)
                rs == rangesArgOf(i)
            IN  \A q \in 0..(Len(line) - 1) :
                   LET ch == childOf(rendered[i], line[q + 1])
                       K == coveringAt(rs, q)
                   IN  IF K = {} THEN ~ch.span
                       ELSE LET first == CHOOSE k \in K :
                                             \A j \in K \ {k} : sweptBefore(rs, k, j)
                            IN  /\ ch.span
                                /\ ch.className = rs[first].className
                                /\ ch.rangeStart = rs[first].absoluteStart
      /\ \A a \in 1..Len(highlights), b \in 1..Len(highlights) :
            (/\ a < b
             /\ \A m \in a..b, n \in a..b :
                   m < n /\ (m = a \/ n = b) => ~tiedOnSomeLine(text, highlights[m], highlights[n]))
            => computeHighlightedContent(text, exchanged(highlights, a, b), <<>>) = rendered

\* two ranges that both begin at the start of the second line, the later
\* declared one reaching further: the first declared has the first letter
C25_Witness ==
    /\ segPhase = "content"
    /\ text = <<NL, "b">>
    /\ Len(highlights) = 2
    /\ highlights[1].start = 0 /\ highlights[1].end = 2
    /\ highlights[2].start = 1 /\ highlights[2].end = 2
    /\ Len(spansOf(rendered[2])) = 1
    /\ spansOf(rendered[2])[1].className = highlights[1].className
    /\ spansOf(rendered[2])[1].rangeStart = 0

\* The other implementation the specification allows for lineOf: a binary
\* search for the greatest line start at or before the offset, over array
\* indexes lo..hi with best the greatest index found so far (-1 for none).
RECURSIVE searchLineStarts(_, _, _, _, _)
searchLineStarts(absolutePos, lineStarts, lo, hi, best) ==
    IF lo > hi
    THEN IF best < 0 THEN [char |-> 0, line |-> 0]
         ELSE [char |-> absolutePos - lineStarts[best + 1], line |-> best]
    ELSE LET mid == (lo + hi) \div 2
         IN  IF lineStarts[mid + 1] <= absolutePos
             THEN searchLineStarts(absolutePos, lineStarts, mid + 1, hi, mid)
             ELSE searchLineStarts(absolutePos, lineStarts, lo, mid - 1, best)

binaryLineOf(absolutePos, lineStarts) ==
    searchLineStarts(absolutePos, lineStarts, 0, Len(lineStarts) - 1, 0 - 1)

\* C26: with line starts present and an offset that is not negative,
\* absoluteToLinePos returns the greatest line index whose line start is at
\* or before the offset and the distance from that line start, so for an
\* offset past the text the last line with the offset minus its start; a
\* negative offset and an empty lineStarts both give line 0, char 0; and a
\* binary search over the line starts returns the same pair as the backward
\* scan.
C26_GreatestLineStart ==
    segPhase = "resolved" =>
      LET p == rendered.absolutePos
          lineStarts == rendered.lineStarts
          at == rendered.pos
          atOrBefore == { i \in 0..(Len(lineStarts) - 1) : lineStarts[i + 1] <= p }
      IN  /\ lineStarts = <<>> \/ p < 0 => at = [char |-> 0, line |-> 0]
          /\ lineStarts # <<>> /\ p >= 0 =>
                /\ at.line \in atOrBefore
                /\ \A i \in atOrBefore : i <= at.line
                /\ at.char = p - lineStarts[at.line + 1]
                /\ p > Len(text) =>
                      /\ at.line = Len(lineStarts) - 1
                      /\ at.char = p - lineStarts[Len(lineStarts)]
          /\ binaryLineOf(p, lineStarts) = at

\* an offset on the start of the middle line of three
C26_Witness ==
    /\ segPhase = "resolved"
    /\ rendered.lineStarts = <<0, 1, 2>>
    /\ rendered.absolutePos = 1
    /\ rendered.pos = [char |-> 0, line |-> 1]
    /\ binaryLineOf(1, rendered.lineStarts) = [char |-> 0, line |-> 1]

\* the offsets of the characters that stand in some styled segment
shownInSpans ==
    UNION { UNION { { offsetOfLetter(spansOf(rendered[i])[n].text[j]) :
                      j \in 1..Len(spansOf(rendered[i])[n].text) } :
                    n \in 1..Len(spansOf(rendered[i])) } :
            i \in 1..Len(rendered) }

\* the sub-ranges [max(0, start - lineStart), min(end - lineStart, lineLength)]
\* of the declared ranges on line i, the empty ones left out
subRangesOn(i) ==
    LET lp == getLinePositions(text)
        lineStart == lp.lineStarts[i]
        lineLength == Len(lp.lines[i])
        sub(h) == [absoluteStart |-> h.start, className |-> h.className,
                   end |-> Min2(h.end - lineStart, lineLength),
                   start |-> Max2(0, h.start - lineStart)]
    IN  SelectSeq([k \in 1..Len(highlights) |-> sub(highlights[k])],
                  LAMBDA r : r.end > r.start)

\* C27: a character that is no line break stands in a styled segment exactly
\* when some declared range has start <= its offset < end; the ranges a line
\* is rendered with are, in declaration order, the non-empty sub-ranges
\* [max(0, start - lineStart), min(end - lineStart, lineLength)] of the
\* declared ranges, so a range over several lines gives each line its part;
\* and no child of any line holds a line break.
C27_CoverageEquivalence ==
    segPhase = "content" =>
      /\ \A p \in 0..(Len(text) - 1) :
            text[p + 1] # NL =>
               (p \in shownInSpans <=>
                  \E k \in 1..Len(highlights) : highlights[k].start <= p /\ p < highlights[k].end)
      /\ \A i \in 1..Len(rendered) :
            /\ rangesArgOf(i) = subRangesOn(i)
            /\ \A n \in 1..Len(rendered[i].children) :
                  \A j \in 1..Len(rendered[i].children[n].text) :
                     rendered[i].children[n].text[j] # NL

\* one range over all of "a", line break, "c": each line has its part of
\* the range as a segment and the line break stands in none
C27_Witness ==
    /\ segPhase = "content"
    /\ text = TwoLines
    /\ Len(highlights) = 1
    /\ highlights[1].start = 0 /\ highlights[1].end = 3
    /\ shownInSpans = {0, 2}
    /\ rangesArgOf(1) = <<[absoluteStart |-> 0, className |-> highlights[1].className,
                          end |-> 1, start |-> 0]>>
    /\ rangesArgOf(2) = <<[absoluteStart |-> 0, className |-> highlights[1].className,
                          end |-> 1, start |-> 0]>>

\* C28: every rendered line container has at least one child; a line of
\* length zero is rendered as the one non-breaking-space placeholder with no
\* <span>, whatever ranges the line is rendered with, and a line that has
\* characters is rendered with children that hold its characters and no
\* non-breaking space.
C28_BlankLinePlaceholder ==
    segPhase \in {"content", "line"} =>
      \A i \in 1..Len(rendered) :
         /\ Len(rendered[i].children) >= 1
         /\ lineArgOf(i) = <<>> =>
               /\ rendered[i].children = <<TextChild(<<NBSP>>)>>
               /\ spansOf(rendered[i]) = <<>>
         /\ lineArgOf(i) # <<>> =>
               /\ ~isPlaceholder(rendered[i])
               /\ \A n \in 1..Len(rendered[i].children) :
                     /\ rendered[i].children[n].text # <<>>
                     /\ \A j \in 1..Len(rendered[i].children[n].text) :
                           rendered[i].children[n].text[j] # NBSP

\* an empty line rendered with two ranges that reach from before it to
\* past it
C28_Witness ==
    /\ segPhase = "line"
    /\ text = <<>>
    /\ Len(highlights) = 2
    /\ \A k \in 1..2 : highlights[k].start < 0 /\ highlights[k].end > 0
    /\ rendered[1].children = <<TextChild(<<NBSP>>)>>


(***************************************************************************)
(* C29 - Divergence anomaly: whenever, after a reconciliation step (user   *)
(* edit, external prop update or setValue), the textarea's raw value       *)
(* differs from TextValue, a valueMismatch anomaly is handed to the        *)
(* telemetry object, and the mismatch is gone after the next               *)
(* reconciliation pass.  Stated for the states a reconciliation step       *)
(* leaves with no pass outstanding (no render asked for, no passive effect *)
(* due, no owner answer in flight): there the raw value is TextValue, or   *)
(* the step has recorded the anomaly.  TextValue is the value prop of a    *)
(* controlled instance and internalValue of an uncontrolled one.           *)
(***************************************************************************)
textValue(c) == IF isControlled THEN c.value ELSE c.internalValue

reconciled(c) == ~renderNeeded(c) /\ c.effects = {} /\ c.ownerQueue = <<>>

C29_DivergenceAnomaly ==
    /\ mounted
    /\ lastOp.op \in {"userEdit", "setValue", "render", "effects"}
    /\ reconciled(dl)
    /\ dl.dom # textValue(dl)
    => dl.anomalies # <<>>


(***************************************************************************)
(* C30 - Reconcile-before-sync: no sync pass executes between an edit's    *)
(* change of the textarea's raw value (user edit or setValue) and the      *)
(* commit of the value update the edit caused: whenever a sync pass has    *)
(* executed on the mounted editor, the textarea's raw value is the         *)
(* currentValue of the last commit, the text the overlay renders.          *)
(***************************************************************************)
C30_ReconcileBeforeSync ==
    /\ lastOp.op = "frame"
    /\ lastFrame.mounted
    /\ lastFrame.wrote
    => dl.dom = currentValueOf(dl)


(***************************************************************************)
(* C39 - Telemetry retention: after any sequence of record() calls with    *)
(* telemetry enabled the event log holds at most maxEvents events, and     *)
(* they are the most recently recorded events in recording order: a        *)
(* record() leaves a log no longer than maxEvents whose last event is the  *)
(* one just recorded and in front of which stand, in their order, the      *)
(* latest events of the log before, as many as maxEvents has room for.     *)
(***************************************************************************)
C39_Retention ==
    [][lastOp'.op = "record" /\ telemetry.enabled =>
         LET old == telemetry.events
             new == telemetry'.events
             kept == Len(new) - 1
         IN  /\ Len(new) <= telemetry.maxEvents
             /\ Len(new) = Min2(Len(old) + 1, telemetry.maxEvents)
             /\ \A i \in 1..kept : new[i] = old[Len(old) - kept + i]
             /\ new[Len(new)].timestamp = lastOp'.now
             /\ new[Len(new)].type = lastOp'.type]_vars


(***************************************************************************)
(* syncValueWithDOM called on its own.  DomSyncSpec looks at one           *)
(* useTextareaValue in either mode whose textarea something outside React  *)
(* writes to (a form reset, autofill, a script) and whose ref is null      *)
(* before the textarea is attached; the exported function is called with   *)
(* the ref and the currentValue, setInternalValue and onChange of the last *)
(* render, and React renders the state update it has asked for.           *)
(***************************************************************************)
DomSyncInit ==
    /\ segPhase = "off"
    /\ text = <<>>
    /\ highlights = <<>>
    /\ rendered = <<>>
    /\ mounted = TRUE
    /\ isControlled \in BOOLEAN
    /\ \E seed \in Values, attached \in BOOLEAN :
          dl = [InitInstance(seed) EXCEPT !.textarea = attached]
    /\ widget = <<>>
    /\ overlay = <<>>
    /\ lastOp = NoOp
    /\ got = Undefined
    /\ lastFrame = NoFrameYet
    /\ telemetry = <<>>
    /\ NoGeometry

\* the textarea's value is written from outside React
DomWrite ==
    /\ dl.textarea
    /\ \E raw \in Values \ {dl.dom} : dl' = [fresh(dl) EXCEPT !.dom = raw]
    /\ lastOp' = [op |-> "domWrite", arg |-> Undefined]
    /\ UNCHANGED <<segVars, geoVars, mounted, isControlled, widget, overlay, got, lastFrame,
                   telemetry>>

\* React attaches the textarea to the ref, or detaches it
SetRef ==
    /\ dl' = [fresh(dl) EXCEPT !.textarea = ~@]
    /\ lastOp' = [op |-> "setRef", arg |-> Undefined]
    /\ UNCHANGED <<segVars, geoVars, mounted, isControlled, widget, overlay, got, lastFrame,
                   telemetry>>

SyncValueWithDOM ==
    /\ \E answer \in Answers :
          /\ answerFits(dl, answer)
          /\ dl' = syncValueWithDOM(fresh(dl), currentValueOf(dl), answer)
    /\ lastOp' = [op |-> "syncValueWithDOM", arg |-> Undefined]
    /\ UNCHANGED <<segVars, geoVars, mounted, isControlled, widget, overlay, got, lastFrame,
                   telemetry>>

\* the render of the state update: internalValue takes the value asked for
\* and React writes value={currentValue} to an attached textarea
RenderUpdate ==
    /\ dl.pendingInternal # Undefined
    /\ dl' = [fresh(dl) EXCEPT !.internalValue = dl.pendingInternal,
                               !.pendingInternal = Undefined,
                               !.dom = IF dl.textarea /\ ~isControlled
                                       THEN dl.pendingInternal ELSE @]
    /\ lastOp' = [op |-> "render", arg |-> Undefined]
    /\ UNCHANGED <<segVars, geoVars, mounted, isControlled, widget, overlay, got, lastFrame,
                   telemetry>>

DomSyncNext ==
    \/ DomWrite
    \/ SetRef
    \/ SyncValueWithDOM
    \/ RenderUpdate

DomSyncSpec == DomSyncInit /\ [][DomSyncNext]_vars

(***************************************************************************)
(* C38 - DOM-sync step: syncValueWithDOM, in uncontrolled mode with an     *)
(* attached textarea whose raw value differs from currentValue, asks for   *)
(* the raw value as the new internalValue and then invokes onChange with   *)
(* it, once; when the values are equal, when the textarea is detached, or  *)
(* in controlled mode, it changes no state and invokes no listener.        *)
(***************************************************************************)
C38_DomSyncStep ==
    [][lastOp'.op = "syncValueWithDOM" =>
         IF ~isControlled /\ dl.textarea /\ dl.dom # currentValueOf(dl)
         THEN /\ dl'.trace = <<"setInternalValue", "onChange">>
              /\ dl'.calls = <<dl.dom>>
              /\ dl'.pendingInternal = dl.dom
              /\ dl' = [fresh(dl) EXCEPT !.pendingInternal = dl.dom,
                                         !.trace = dl'.trace, !.calls = dl'.calls]
         ELSE dl' = fresh(dl)]_vars

\* the raw value "ab" written over "a" has been adopted and notified
C38_Witness ==
    /\ ~isControlled
    /\ lastOp.op = "syncValueWithDOM"
    /\ dl.textarea
    /\ dl.internalValue = "a"
    /\ dl.dom = "ab"
    /\ dl.pendingInternal = "ab"
    /\ dl.calls = <<"ab">>


(***************************************************************************)
(* The two state cells of useTextareaValue.  OwnershipSpec looks at an     *)
(* instance of either mode that mounted with value ?? defaultValue = "a"   *)
(* and whose owner later passes other defaultValue props; the user, the    *)
(* handle and the owner act on it as in Spec.                              *)
(***************************************************************************)
OwnershipInit ==
    /\ segPhase = "off"
    /\ text = <<>>
    /\ highlights = <<>>
    /\ rendered = <<>>
    /\ mounted = TRUE
    /\ isControlled \in BOOLEAN
    /\ dl = syncLayout(syncLayout(InitInstance("a")))
    /\ widget = [style |-> "ltr", scroll |-> 0]
    /\ overlay = [style |-> "none", scroll |-> 0]
    /\ lastOp = NoOp
    /\ got = Undefined
    /\ lastFrame = NoFrameYet
    /\ telemetry = <<>>
    /\ NoGeometry

\* the owner renders the component with another defaultValue: useState
\* keeps its state and ignores the initial value of a later render
DefaultValueChange ==
    /\ mounted
    /\ \E v \in Values \ {dl.defaultValue} : dl' = [fresh(dl) EXCEPT !.defaultValue = v]
    /\ lastOp' = [op |-> "defaultValue", arg |-> Undefined]
    /\ got' = Undefined
    /\ lastFrame' = NoFrameYet
    /\ UNCHANGED <<segVars, geoVars, mounted, isControlled, widget, overlay, telemetry>>

OwnershipNext ==
    \/ UserEdit
    \/ SetValue
    \/ OwnerDeliver
    \/ OwnerUpdate
    \/ Render
    \/ FlushEffects
    \/ DefaultValueChange

OwnershipSpec == OwnershipInit /\ [][OwnershipNext]_vars

(***************************************************************************)
(* C37 - Ownership frame: internalValue is seeded at mount from            *)
(* value ?? defaultValue and a later defaultValue never changes it (nor    *)
(* renderValue); in controlled mode user edits, setValue and prop updates  *)
(* change only the mirror renderValue: internalValue stays and no update   *)
(* of it is asked for; in uncontrolled mode they change only               *)
(* internalValue: renderValue stays and no update of it is asked for.      *)
(***************************************************************************)
C37_OwnershipFrame ==
    [][/\ lastOp'.op = "defaultValue" =>
            /\ dl'.internalValue = dl.internalValue
            /\ dl'.renderValue = dl.renderValue
            /\ dl'.pendingInternal = dl.pendingInternal
            /\ dl'.pendingRender = dl.pendingRender
            /\ dl'.dom = dl.dom
       /\ isControlled =>
            /\ dl'.internalValue = dl.internalValue
            /\ dl'.pendingInternal = Undefined
       /\ ~isControlled =>
            /\ dl'.renderValue = dl.renderValue
            /\ dl'.pendingRender = Undefined]_vars

\* a controlled instance seeded with "a" whose mirror an edit has moved to
\* "ab" under a changed defaultValue
C37_Witness ==
    /\ isControlled
    /\ lastOp.op = "userEdit"
    /\ dl.internalValue = "a"
    /\ dl.renderValue = "ab"
    /\ dl.defaultValue = ""


(***************************************************************************)
(* C36 - Exactly-once notification: a user edit whose raw value differs    *)
(* from currentValue, and a setValue call on an attached textarea, invoke  *)
(* onChange exactly once, with that value; the effect that calls           *)
(* syncValueWithDOM after a render does not notify again for the same      *)
(* change: a step that is only a render or only a run of passive effects   *)
(* invokes no onChange.                                                    *)
(***************************************************************************)
C36_ExactlyOnce ==
    [][/\ lastOp'.op = "userEdit" /\ lastOp'.arg # currentValueOf(dl) =>
            dl'.calls = <<lastOp'.arg>>
       /\ lastOp'.op = "setValue" /\ dl.textarea =>
            dl'.calls = <<lastOp'.arg>>
       /\ lastOp'.op \in {"render", "effects"} =>
            dl'.calls = <<>>]_vars


(***************************************************************************)
(* StyleSpec: who writes the overlay's inline style.  The style step of    *)
(* the sync pass writes it from the textarea's computed style; a render of *)
(* the component passes getHighlightLayerStyle(dir, textareaHeight) as the *)
(* overlay's style prop, of which React writes the properties that differ  *)
(* from the previous render, and dir to the textarea.  lastOp keeps, for a *)
(* style step, the inline style the overlay had before it.                 *)
(***************************************************************************)
\* the overlay after a render with the prop dir: direction is the one
\* property of the style prop that the model's style holds
getHighlightLayerStyle_withPadding(layer, dir) ==
    [layer EXCEPT !.style.direction = dir,
                  !.style.paddingTop = px(0), !.style.paddingBottom = px(0),
                  !.style.paddingLeft = px(0), !.style.paddingRight = px(0)]
getHighlightLayerStyle(layer, dir) ==
    IF layer.style.direction = dir THEN layer
    ELSE [layer EXCEPT !.style.direction = dir]

StyleInit ==
    /\ segPhase = "off"
    /\ text = <<>>
    /\ highlights = <<>>
    /\ rendered = <<>>
    /\ mounted = FALSE
    /\ isControlled = FALSE
    /\ dl = <<>>
    /\ widget = <<>>
    /\ overlay = <<>>
    /\ lastOp = [op |-> "none", before |-> <<>>]
    /\ got = Undefined
    /\ lastFrame = <<>>
    /\ telemetry = <<>>
    /\ textarea \in { ta \in Textareas : ta.style.direction = "ltr" }
    /\ highlightLayer \in HighlightLayers
    /\ geoOp = "none"

\* syncStyles of useHighlightSync
StylePass ==
    /\ highlightLayer' = syncHighlightStyles(textarea, highlightLayer)
    /\ geoOp' = "syncStyles"
    /\ lastOp' = [op |-> "syncStyles", before |-> highlightLayer.style]
    /\ UNCHANGED <<segVars, mounted, isControlled, dl, widget, overlay, got, lastFrame,
                   telemetry, textarea>>

\* the text grows or shrinks: the textarea gains or loses its scrollbar,
\* and the component renders the new text
TextChange ==
    /\ \E g \in Gutters \ {textarea.gutter} : textarea' = [textarea EXCEPT !.gutter = g]
    /\ highlightLayer' = getHighlightLayerStyle(highlightLayer, textarea.style.direction)
    /\ geoOp' = "render"
    /\ lastOp' = [op |-> "textChange", before |-> <<>>]
    /\ UNCHANGED <<segVars, mounted, isControlled, dl, widget, overlay, got, lastFrame,
                   telemetry>>

\* the component renders with the prop dir (new highlights or a new height
\* with the same dir, or another dir)
ReRender ==
    /\ \E dir \in Directions :
          /\ textarea' = [textarea EXCEPT !.style.direction = dir]
          /\ highlightLayer' = getHighlightLayerStyle(highlightLayer, dir)
    /\ geoOp' = "render"
    /\ lastOp' = [op |-> "render", before |-> <<>>]
    /\ UNCHANGED <<segVars, mounted, isControlled, dl, widget, overlay, got, lastFrame,
                   telemetry>>

StyleNext ==
    \/ StylePass
    \/ TextChange
    \/ ReRender

StyleSpec == StyleInit /\ [][StyleNext]_vars

paddingsOf(style) ==
    <<style.paddingTop, style.paddingRight, style.paddingBottom, style.paddingLeft>>

(***************************************************************************)
(* C34 - Transient geometry: what the style step writes to the overlay     *)
(* (the four paddings, the border widths, the direction) depends on the    *)
(* textarea at that step only: the overlay's style after the step is the   *)
(* one the step gives after any earlier step, on whatever textarea that    *)
(* one ran; a second step on the unchanged textarea changes nothing; and   *)
(* the padding is the textarea's own on both sides when there is no        *)
(* scrollbar and on the leading side (left for ltr, right for rtl) when    *)
(* there is one, whatever an earlier step added there.                     *)
(***************************************************************************)
C34_TransientGeometry ==
    geoOp = "syncStyles" /\ bothAttached =>
      LET own == textarea.style
          layerStyle == highlightLayer.style
      IN  /\ \A earlier \in Textareas :
                syncHighlightStyles(textarea,
                                    syncHighlightStyles(earlier, highlightLayer)).style
                    = layerStyle
          /\ syncHighlightStyles(textarea, highlightLayer) = highlightLayer
          /\ layerStyle.paddingTop = own.paddingTop
          /\ layerStyle.paddingBottom = own.paddingBottom
          /\ layerStyle.borderLeftWidth = own.borderLeftWidth
          /\ layerStyle.borderRightWidth = own.borderRightWidth
          /\ layerStyle.direction = own.direction
          /\ scrollbarWidthOf(textarea) <= 0 => paddingsOf(layerStyle) = paddingsOf(own)
          /\ own.direction = "ltr" => layerStyle.paddingLeft = own.paddingLeft
          /\ own.direction = "rtl" => layerStyle.paddingRight = own.paddingRight

\* a step on a textarea turned rtl: the step before had widened the right
\* padding for the scrollbar, this one has put the textarea's own back there
\* and has widened the left one
C34_Witness ==
    /\ geoOp = "syncStyles"
    /\ bothAttached
    /\ textarea.style.direction = "rtl"
    /\ scrollbarWidthOf(textarea) > 0
    /\ lastOp.before.paddingRight =
          px(parseFloatOr0(textarea.style.paddingRight) + scrollbarWidthOf(textarea))
    /\ highlightLayer.style.paddingRight = textarea.style.paddingRight
    /\ highlightLayer.style.paddingLeft =
          px(parseFloatOr0(textarea.style.paddingLeft) + scrollbarWidthOf(textarea))

(***************************************************************************)
(* C35 - Padding ownership: a render of the component (new text, new       *)
(* highlights, another dir or height) writes none of the overlay's four    *)
(* paddings: they are after the render what the last style step wrote,     *)
(* the scrollbar compensation included.                                    *)
(***************************************************************************)
C35_PaddingOwnership ==
    [][geoOp' = "render" =>
         paddingsOf(highlightLayer'.style) = paddingsOf(highlightLayer.style)]_vars

\* after a render that turned the editor rtl the overlay still has the
\* right padding that the style step widened for the scrollbar of the ltr
\* textarea
C35_Witness ==
    /\ geoOp = "render"
    /\ lastOp.op = "render"
    /\ bothAttached
    /\ highlightLayer.style.direction = "rtl"
    /\ scrollbarWidthOf(textarea) > 0
    /\ highlightLayer.style.paddingLeft = textarea.style.paddingLeft
    /\ highlightLayer.style.paddingRight =
          px(parseFloatOr0(textarea.style.paddingRight) + scrollbarWidthOf(textarea))


(***************************************************************************)
(* SyncLiveSpec: the triggers of syncLayout and the animation frames.  An  *)
(* uncontrolled editor that its user edits and scrolls, in which the       *)
(* selection, the size and the layout props change, and whose handle is    *)
(* called; the browser runs an animation frame while a callback is         *)
(* requested, and React runs the renders and passive effects it has        *)
(* queued.                                                                 *)
(***************************************************************************)
SyncLiveInit == Init /\ ~isControlled

SyncLiveNext ==
    \/ UserEdit
    \/ SetValue
    \/ Scroll
    \/ Trigger
    \/ Render
    \/ FlushEffects
    \/ Frame
    \/ Unmount

SyncLiveSpec ==
    /\ SyncLiveInit
    /\ [][SyncLiveNext]_vars
    /\ WF_vars(Frame)
    /\ WF_vars(Render)
    /\ WF_vars(FlushEffects)

tokenPending(c) ==
    /\ c.syncFrameId # NoFrame
    /\ \E k \in 1..Len(c.rafQueue) : c.rafQueue[k] = c.syncFrameId

passExecuted == lastOp.op = "frame" /\ lastFrame.ran # <<>>

(***************************************************************************)
(* C31 - Sync response: every trigger (a change of currentValue, scroll,   *)
(* select, selectionchange, a size or layout change, setValue) calls       *)
(* syncLayout, which leaves a token pending; a pending token is followed   *)
(* by the execution of a sync pass at a later frame unless the component   *)
(* unmounts first, also when later triggers replace the token before it    *)
(* fires; and when the pass has finished no token is pending.              *)
(***************************************************************************)
C31_SyncResponse ==
    /\ [][/\ lastOp'.op \in {"scroll", "trigger", "setValue"} => tokenPending(dl')
          /\ /\ lastOp'.op \in {"userEdit", "render"}
             /\ currentValueOf(dl') # currentValueOf(dl)
             => tokenPending(dl')
          /\ lastOp'.op = "frame" => dl'.syncFrameId = NoFrame /\ dl'.rafQueue = <<>>]_vars
    /\ (mounted /\ tokenPending(dl)) ~> (~mounted \/ passExecuted)

\* a pass has run for a token that replaced an earlier one
C31_Witness ==
    /\ mounted
    /\ passExecuted
    /\ lastFrame.requests = 2
    /\ lastFrame.wrote
    /\ Len(lastFrame.ran) = 1
    /\ dl.syncFrameId = NoFrame
    /\ dl.rafQueue = <<>>


(***************************************************************************)
(* ObserverSpec: the ResizeObserver on the textarea, auto-resize and the   *)
(* sync token together.  textarea is the element of ResizeSpec; dl is the  *)
(* instance of Spec with the enableAutoResize prop, the textareaHeight     *)
(* cell of useAutoResize, the width of the textarea, the size the          *)
(* observer reported last, and the number of outside events still to come  *)
(* (text changes, container resizes).  The browser delivers an             *)
(* observation while the size of the textarea is not the one reported      *)
(* last, React renders a pending textareaHeight, and animation frames run. *)
(***************************************************************************)
MaxOutsideEvents == 1
TextareaWidths == {1, 2}
NotObserved == <<0, 0>>

\* the DOM: offsetHeight of a border-box textarea
offsetHeight(el) ==
    IF el.style.height \in {UnsetHeight, AutoHeight}
    THEN Rows * LineHeight + parseFloatOr0(el.borderTopWidth)
                           + parseFloatOr0(el.borderBottomWidth)
    ELSE parseFloatOr0(el.style.height)

sizeOf(c, el) == <<c.width, offsetHeight(el)>>

\* the callback handed to new ResizeObserver: the instance and the element
\* afterwards
resizeObserverCallback(c, element) ==
    LET resized == handleAutoResize(c, element)
    IN  [c |-> syncLayout(resized.c), element |-> resized.element]

\* React commits a render: the textareaHeight cell takes its pending value
\* and the style properties that differ from the previous render are written
commitHeight(c, element) ==
    LET next == heightProp(c.pendingHeight)
    IN  [c |-> [c EXCEPT !.textareaHeight = c.pendingHeight, !.heightProp = next],
         element |-> IF next # c.heightProp
                     THEN [element EXCEPT !.style.height = next] ELSE element]

\* the two layout effects of a render with a new currentValue
valueLayoutEffects(c, element) ==
    LET first == handleAutoResize(c, element)
        second == handleAutoResize(syncLayout(first.c), first.element)
    IN  [c |-> syncLayout(second.c), element |-> second.element]

ObserverInit ==
    /\ segPhase = "off"
    /\ text = <<>>
    /\ highlights = <<>>
    /\ rendered = <<>>
    /\ mounted = TRUE
    /\ isControlled = FALSE
    /\ \E e \in BOOLEAN, w \in TextareaWidths, el \in ResizeTextareas :
          LET c == InitInstance("") @@
                   [enableAutoResize |-> e, textareaHeight |-> NoHeight,
                    pendingHeight |-> NoHeight, heightProp |-> UnsetHeight,
                    width |-> w, observed |-> NotObserved, events |-> MaxOutsideEvents]
              after == valueLayoutEffects(c, el)
          IN  /\ dl = after.c
              /\ textarea = after.element
    /\ widget = [style |-> "ltr", scroll |-> 0]
    /\ overlay = [style |-> "none", scroll |-> 0]
    /\ lastOp = NoOp
    /\ got = Undefined
    /\ lastFrame = NoFrameYet
    /\ telemetry = <<>>
    /\ highlightLayer = <<>>
    /\ geoOp = "none"

\* the browser delivers a resize observation
Observe ==
    /\ mounted
    /\ sizeOf(dl, textarea) # dl.observed
    /\ LET after == resizeObserverCallback(
                        [fresh(dl) EXCEPT !.observed = sizeOf(dl, textarea)], textarea)
       IN  /\ dl' = after.c
           /\ textarea' = after.element
    /\ lastOp' = [op |-> "observe", arg |-> Undefined]
    /\ got' = Undefined
    /\ lastFrame' = NoFrameYet
    /\ UNCHANGED <<segVars, mounted, isControlled, widget, overlay, telemetry,
                   highlightLayer, geoOp>>

\* React renders the pending textareaHeight; no layout effect depends on it
HeightRender ==
    /\ mounted
    /\ dl.pendingHeight # dl.textareaHeight
    /\ LET after == commitHeight(fresh(dl), textarea)
       IN  /\ dl' = after.c
           /\ textarea' = after.element
    /\ lastOp' = [op |-> "render", arg |-> Undefined]
    /\ got' = Undefined
    /\ lastFrame' = NoFrameYet
    /\ UNCHANGED <<segVars, mounted, isControlled, widget, overlay, telemetry,
                   highlightLayer, geoOp>>

\* the text changes: the render with the new currentValue and its layout
\* effects
TextRender ==
    /\ mounted
    /\ dl.events > 0
    /\ \E h \in ContentHeights \ {textarea.contentHeight} :
          LET committed == commitHeight([fresh(dl) EXCEPT !.events = @ - 1],
                                        [textarea EXCEPT !.contentHeight = h])
              after == valueLayoutEffects(committed.c, committed.element)
          IN  /\ dl' = after.c
              /\ textarea' = after.element
    /\ lastOp' = [op |-> "textChange", arg |-> Undefined]
    /\ got' = Undefined
    /\ lastFrame' = NoFrameYet
    /\ UNCHANGED <<segVars, mounted, isControlled, widget, overlay, telemetry,
                   highlightLayer, geoOp>>

\* the container gets another width and the text wraps differently
ContainerResize ==
    /\ mounted
    /\ dl.events > 0
    /\ \E w \in TextareaWidths \ {dl.width}, h \in ContentHeights :
          /\ dl' = [fresh(dl) EXCEPT !.width = w, !.events = @ - 1]
          /\ textarea' = [textarea EXCEPT !.contentHeight = h]
    /\ lastOp' = [op |-> "containerResize", arg |-> Undefined]
    /\ got' = Undefined
    /\ lastFrame' = NoFrameYet
    /\ UNCHANGED <<segVars, mounted, isControlled, widget, overlay, telemetry,
                   highlightLayer, geoOp>>

\* an animation frame with a callback to run
SyncFrame ==
    /\ dl.rafQueue # <<>>
    /\ Frame
    /\ UNCHANGED textarea

ObserverNext ==
    \/ Observe
    \/ HeightRender
    \/ TextRender
    \/ ContainerResize
    \/ SyncFrame

ObserverSpec ==
    /\ ObserverInit
    /\ [][ObserverNext]_vars
    /\ WF_vars(Observe)
    /\ WF_vars(HeightRender)
    /\ WF_vars(SyncFrame)

Quiescent ==
    /\ dl.rafQueue = <<>>
    /\ dl.syncFrameId = NoFrame
    /\ sizeOf(dl, textarea) = dl.observed
    /\ dl.pendingHeight = dl.textareaHeight


\* C33: a step of the ResizeObserver callback changes nothing of the
\* textarea's size synchronously: its style.height and its offsetHeight are
\* the same after the callback as before, and the work is left to the frame
\* the callback requests.
C33_DebouncedObservation ==
    [][lastOp'.op = "observe"
       => /\ textarea'.style.height = textarea.style.height
          /\ offsetHeight(textarea') = offsetHeight(textarea)
          /\ dl'.pendingHeight = dl.pendingHeight
          /\ tokenPending(dl')]_vars

\* C32: a frame that runs the sync pass leaves no token pending and changes
\* nothing of the textarea, an observation leaves exactly one token pending,
\* and once the outside events stop the system reaches, and stays in, a state
\* with no token pending, no render pending and no observation to deliver.
C32_LoopGuard ==
    /\ [][/\ lastOp'.op = "frame"
             => dl'.rafQueue = <<>> /\ dl'.syncFrameId = NoFrame
          /\ lastOp'.op = "observe"
             => Len(dl'.rafQueue) = 1 /\ dl'.syncFrameId = dl'.rafQueue[1]]_vars
    /\ <>[]Quiescent

\* auto-resize is enabled, the borders are counted, and the cycle has come to
\* rest after an observation resized the textarea
C32_Witness ==
    /\ dl.enableAutoResize
    /\ parseFloatOr0(textarea.borderTopWidth) + parseFloatOr0(textarea.borderBottomWidth)
           > BorderThreshold
    /\ dl.events = 0
    /\ Quiescent
    /\ offsetHeight(textarea) = dl.textareaHeight
           + parseFloatOr0(textarea.borderTopWidth) + parseFloatOr0(textarea.borderBottomWidth)
    /\ dl.observed[2] = offsetHeight(textarea)

=============================================================================
